---- MODULE Spec2Model ----
(***************************************************************************)
(* Verification model of the venus renderer backend:                       *)
(*   - src/src/venus_context.c : resource tracking table, fence/timeline   *)
(*     layer, process-wide context list;                                   *)
(*   - src/src/venus/vkr_context.h : object registry, fatal flag, device   *)
(*     memory allocation policy and blob export.                           *)
(* One specification per layer: Spec (fences), SpecResources,              *)
(* SpecObjects, SpecMemory.  Every specification leaves the variables of    *)
(* the other layers at their initial values.                               *)
(***************************************************************************)
EXTENDS Integers, Sequences, FiniteSets, TLC

VARIABLES
    \* ---- venus_context.c, fence / timeline layer ----
    contexts,            \* process-wide list of context ids (struct list_head contexts)
    aborted,             \* the process died on assert(ctx) / NULL dereference
    timelines,           \* ctx->timelines[ring]: cur_seqno, next_seqno, fences
    fence_pool,          \* every struct venus_fence malloc'ed so far, by slot
    free_fences,         \* ctx->free_fences (list of slots)
    timeline_busy_mask,  \* ctx->timeline_busy_mask, as the set of its 1 bits
    submit_ret,          \* what the last submit_fence call returned
    subs,                \* history: one record per submit_fence call that enqueued a fence
    retired,             \* history: the fence_retire callbacks, in delivery order
    reported,            \* history: submissions the driver reported via on_retire
    \* ---- venus_context.c, resource tracking ----
    resource_table,      \* ctx->resource_table (set of res_id)
    renderer_resources,  \* res_ids the renderer holds for this context
    res_hist,            \* history: the last two resource calls
    \* ---- vkr_context.h, object registry ----
    object_table,        \* ctx->object_table: id -> object instance (0 = absent)
    cs_fatal_error,      \* ctx->cs_fatal_error
    track_lists,         \* per parent, the tracked children (object instances)
    destructor_calls,    \* history: destructor calls per object instance
    instance_id,         \* history: the id each object instance was created with
    vkr_destroyed,       \* the vkr context has been destroyed
    after_fatal,         \* history: an operation ran with the fatal flag already set
    cmd_last,            \* history: the last submit_cmd call
    validate_last,       \* history: the last vkr_context_validate_object_id call
    destructor_mutex,    \* history: per instance, whether object_mutex was held
                         \* when its destructor ran
    \* ---- vkr_context.h, device memory ----
    caps,                \* physical device capabilities and build options
    vkr_resources,       \* ctx->resource_table: res_id -> struct vkr_resource
    fd_table,            \* the process's fds: fd -> open file description
    mems,                \* object id -> struct vkr_device_memory, with two history
                         \* fields: mapped (vkMapMemory succeeded) and exports (the
                         \* export_blob calls that returned true, counted up to 2)
    mem_fatal,           \* ctx->cs_fatal_error of the device-memory context
    out_blob,            \* the blob of the export_blob call that ran last (else NoBlob)
    mem_last,            \* history: the last device-memory operation
    \* ---- vkr_context.h, ring wait ----
    wait_ring,           \* ctx->wait_ring: id and seqno being waited on (id 0: none)
    wait_pc,             \* where the dispatch thread is in vkr_context_wait_ring_seqno
    ring_head,           \* the head seqno of each ring, as last observed
    wait_hist,           \* history of the current wait: blocked, matched, ret
    \* ---- venus_context.c, submit_fence against the retirement thread ----
    submit_pc,           \* where the dispatch thread is in venus_context_submit_fence
    submit_frame,        \* its locals while it is inside vkr_renderer_submit_fence
    rollback_of_freed    \* history: the failure path unlinked a fence that on_retire
                         \* had already freed

fenceVars == <<contexts, aborted, timelines, fence_pool, free_fences,
               timeline_busy_mask, submit_ret, subs, retired, reported>>
resVars == <<resource_table, renderer_resources, res_hist>>
objVars == <<object_table, cs_fatal_error, track_lists, destructor_calls,
             instance_id, vkr_destroyed, after_fatal, cmd_last, validate_last,
             destructor_mutex>>
memVars == <<caps, vkr_resources, fd_table, mems, mem_fatal, out_blob, mem_last>>
ringVars == <<wait_ring, wait_pc, ring_head, wait_hist>>
asyncVars == <<submit_pc, submit_frame, rollback_of_freed>>
vars == <<fenceVars, resVars, objVars, memVars, ringVars, asyncVars>>

(***************************************************************************)
(* 32-bit unsigned integers.  A uint32_t is the pair <<hi, lo>> of its two  *)
(* 16-bit halves, so that values around 2^31 and 2^32 are represented       *)
(* exactly; a uint64_t fence id is <<top, hi, lo>>, top being bits 32..63.  *)
(***************************************************************************)
Half == 2^16

U32Values == (0 .. Half - 1) \X (0 .. Half - 1)

\* a - b in uint32_t arithmetic (mod 2^32)
U32Sub(a, b) ==
    LET lo == a[2] - b[2]
        borrow == IF lo < 0 THEN 1 ELSE 0
        hi == a[1] - b[1] - borrow
    IN  <<(hi + 2 * Half) % Half, (lo + Half) % Half>>

\* a + 1 in uint32_t arithmetic (mod 2^32)
U32Inc(a) ==
    IF a[2] = Half - 1 THEN <<(a[1] + 1) % Half, 0>> ELSE <<a[1], a[2] + 1>>

\* a < b, both uint32_t
U32Less(a, b) == a[1] < b[1] \/ (a[1] = b[1] /\ a[2] < b[2])

\* (uint32_t)fence_id
U32OfU64(id) == <<id[2], id[3]>>

U32Zero == <<0, 0>>
\* INT32_MAX = 0x7fffffff
INT32_MAX == <<Half \div 2 - 1, Half - 1>>

(***************************************************************************)
(* Bounds and inputs of the fence layer                                    *)
(***************************************************************************)
VENUS_CONTEXT_TIMELINE_COUNT == 64
\* number of submit_fence calls that enqueue a fence (calls that fail before
\* they allocate one are not counted)
MaxSubmits == 3

\* ctx_id of the one context the exploration creates
CtxIds == {1}
\* ring_idx arguments of submit_fence: two valid rings and the first invalid one
RingInputs == {0, 1, VENUS_CONTEXT_TIMELINE_COUNT}
\* the timelines the model keeps: those of the valid ring_idx arguments (the
\* other entries of ctx->timelines are never touched)
Rings == {r \in RingInputs : r < VENUS_CONTEXT_TIMELINE_COUNT}
\* fence ids the guest may choose: 0, 2^31, 2^32 + 1
FenceIdInputs == {<<0, 0, 0>>, <<0, Half \div 2, 0>>, <<1, 0, 1>>}
\* next_seqno of ring 0 when the exploration starts: a fresh context, or a
\* context on which 2^32 - 1 submit_fence calls have failed in the driver hook
StartSeqnos == {U32Zero, <<Half - 1, Half - 1>>}

EINVAL == 22
ENOMEM == 12
NULL == 0

(***************************************************************************)
(* util/list.h                                                             *)
(***************************************************************************)
list_addtail_front(list, item) == <<item>> \o list
list_addtail(list, item) == Append(list, item)

list_add(list, item) == <<item>> \o list

list_del_keep(list, item) == list
RECURSIVE list_del(_, _)
list_del(list, item) ==
    IF list = <<>> THEN <<>>
    ELSE IF Head(list) = item THEN list_del(Tail(list), item)
    ELSE <<Head(list)>> \o list_del(Tail(list), item)

(***************************************************************************)
(* venus_context.c: fences                                                 *)
(***************************************************************************)
venus_fence_is_signaled_nowrap(fence_seqno, cur_seqno) == ~U32Less(cur_seqno, fence_seqno)
venus_fence_is_signaled(fence_seqno, cur_seqno) ==
    LET d == U32Sub(cur_seqno, fence_seqno)
    IN  U32Less(d, INT32_MAX)

\* the fence venus_context_alloc_fence returns (NULL when malloc fails)
venus_context_alloc_fence(free, pool, malloc_ok) ==
    IF free # <<>> THEN Head(free)
    ELSE IF malloc_ok THEN Len(pool) + 1
    ELSE NULL

venus_context_free_fence(free, slot) == list_add(free, slot)

venus_lookup_context(ctx_list, ctx_id) ==
    IF \E i \in 1 .. Len(ctx_list) : ctx_list[i] = ctx_id THEN ctx_id ELSE NULL

\* the list_for_each_entry_safe loop of venus_context_retire_fences_internal:
\* walk is what is left of the list to visit
RECURSIVE RetireLoop(_, _, _, _, _, _)
RetireLoop(walk, fences, free, log, cur_seqno, ring_idx) ==
    IF walk = <<>> THEN [fences |-> fences, free |-> free, log |-> log]
    ELSE LET slot == Head(walk)
             fence == fence_pool[slot]
         IN  IF ~venus_fence_is_signaled(fence.seqno, cur_seqno)
             THEN [fences |-> fences, free |-> free, log |-> log]
             ELSE RetireLoop(Tail(walk),
                             list_del(fences, slot),
                             venus_context_free_fence(free, slot),
                             Append(log, [ring_idx |-> ring_idx,
                                          fence_id |-> fence.fence_id,
                                          seqno |-> fence.seqno,
                                          sub |-> fence.sub]),
                             cur_seqno, ring_idx)

venus_context_retire_fences_internal(ring_idx, seqno) ==
    LET r == RetireLoop(timelines[ring_idx].fences, timelines[ring_idx].fences,
                        free_fences, retired, seqno, ring_idx)
    IN  /\ timelines' = [timelines EXCEPT ![ring_idx] =
                            [@ EXCEPT !.cur_seqno = seqno, !.fences = r.fences]]
        /\ free_fences' = r.free
        /\ retired' = r.log

\* the submissions the driver accepted and has not yet reported complete
DriverPending ==
    {s \in 1 .. Len(subs) : subs[s].ret = 0 /\ s \notin reported}

FenceInit ==
    /\ \E c \in CtxIds : contexts = <<c>>
    /\ aborted = FALSE
    /\ \E start \in StartSeqnos :
          /\ timelines = [r \in Rings |->
                            [cur_seqno |-> U32Zero,
                             next_seqno |-> IF r = 0 THEN start ELSE U32Zero,
                             fences |-> <<>>]]
          \* the failed calls left their one fence on the free list
          /\ fence_pool = IF start = U32Zero THEN <<>>
                          ELSE <<[flags |-> 0, seqno |-> U32Sub(start, <<0, 1>>),
                                  fence_id |-> <<0, 0, 0>>, sub |-> 0]>>
          /\ free_fences = IF start = U32Zero THEN <<>> ELSE <<1>>
    /\ timeline_busy_mask = {}
    /\ submit_ret = 0
    /\ subs = <<>>
    /\ retired = <<>>
    /\ reported = {}

running == contexts # <<>> /\ ~aborted

\* ctx->timeline_busy_mask = old_busy_mask, on the failure path of submit_fence
RestoreBusyMask_keep(old_busy_mask, busy_mask) == busy_mask
RestoreBusyMask(old_busy_mask, busy_mask) == old_busy_mask

\* venus_context_submit_fence, the whole call; malloc_ok and hook_ok are the
\* outcomes of malloc and of vkr_renderer_submit_fence
SubmitFence(flags, ring_idx, fence_id, malloc_ok, hook_ok) ==
    /\ running
    /\ Len(subs) < MaxSubmits
    /\ LET old_busy_mask == timeline_busy_mask
           slot == venus_context_alloc_fence(free_fences, fence_pool, malloc_ok)
           call == [ring_idx |-> ring_idx, fence_id |-> fence_id]
       IN  IF ring_idx >= VENUS_CONTEXT_TIMELINE_COUNT
           THEN /\ submit_ret' = -EINVAL
                /\ UNCHANGED <<timelines, fence_pool, free_fences, timeline_busy_mask, subs>>
           ELSE IF slot = NULL
           THEN /\ submit_ret' = -ENOMEM
                /\ UNCHANGED <<timelines, fence_pool, free_fences, timeline_busy_mask, subs>>
           ELSE LET timeline == timelines[ring_idx]
                    fence == [flags |-> flags, seqno |-> timeline.next_seqno,
                              fence_id |-> fence_id, sub |-> Len(subs) + 1]
                    free1 == IF free_fences # <<>> THEN Tail(free_fences) ELSE free_fences
                    fences1 == list_addtail(timeline.fences, slot)
                    busy1 == timeline_busy_mask \cup {ring_idx}
                IN  /\ fence_pool' = IF slot > Len(fence_pool)
                                     THEN Append(fence_pool, fence)
                                     ELSE [fence_pool EXCEPT ![slot] = fence]
                    /\ IF hook_ok
                       THEN /\ timelines' = [timelines EXCEPT ![ring_idx] =
                                   [@ EXCEPT !.next_seqno = U32Inc(@), !.fences = fences1]]
                            /\ timeline_busy_mask' = busy1
                            /\ free_fences' = free1
                            /\ submit_ret' = 0
                            /\ subs' = Append(subs, call @@ [ret |-> 0, seqno |-> fence.seqno])
                       ELSE /\ timelines' = [timelines EXCEPT ![ring_idx] =
                                   [@ EXCEPT !.next_seqno = U32Inc(@),
                                             !.fences = list_del(fences1, slot)]]
                            /\ timeline_busy_mask' = RestoreBusyMask(old_busy_mask, busy1)
                            /\ free_fences' = venus_context_free_fence(free1, slot)
                            /\ submit_ret' = -1
                            /\ subs' = Append(subs, call @@ [ret |-> -1, seqno |-> fence.seqno])
    /\ UNCHANGED <<contexts, aborted, retired, reported>>

\* venus_state_cb_retire_fence: the driver's retire callback.  The driver calls
\* it from its retirement thread, once for a fence it accepted (submission s),
\* with the ring and fence id of that submission, in any order.
OnRetire(ctx_id, s) ==
    /\ ~aborted
    /\ s \in DriverPending
    /\ LET ctx == venus_lookup_context(contexts, ctx_id)
           ring_idx == subs[s].ring_idx
           fence_id == subs[s].fence_id
       IN  IF ctx = NULL
           THEN \* assert(ctx) fails; without assertions the NULL context is written
                /\ aborted' = TRUE
                /\ UNCHANGED <<timelines, free_fences, retired, reported>>
           ELSE /\ venus_context_retire_fences_internal(ring_idx, U32OfU64(fence_id))
                /\ reported' = reported \cup {s}
                /\ UNCHANGED aborted
    /\ UNCHANGED <<contexts, fence_pool, timeline_busy_mask, submit_ret, subs>>

\* venus_context_retire_fences: prints "UNIMPLEMENTED", the body is compiled out
RetireFences ==
    /\ running
    /\ UNCHANGED fenceVars

\* venus_context_destroy: frees the free list and unlinks the context
\* (venus_remove_context)
ContextDestroy ==
    /\ running
    /\ free_fences' = <<>>
    /\ contexts' = list_del(contexts, Head(contexts))
    /\ UNCHANGED <<aborted, timelines, fence_pool, timeline_busy_mask, submit_ret,
                   subs, retired, reported>>

(***************************************************************************)
(* Claims about the fence / timeline layer (specification Spec)            *)
(***************************************************************************)
\* 2^31 as a uint32_t
U32Pow31 == <<Half \div 2, 0>>

\* C1: the retire callbacks of one ring are delivered in submission order, that
\* is in strictly ascending (wrap-aware) order of the seqno submit_fence
\* assigned, and no fence is retired while a fence submitted earlier on the
\* same ring is still in flight.
C1_RetireInSubmissionOrder ==
    /\ \A i, j \in 1 .. Len(retired) :
          (i < j /\ retired[i].ring_idx = retired[j].ring_idx) =>
             /\ retired[i].sub < retired[j].sub
             /\ LET d == U32Sub(retired[j].seqno, retired[i].seqno)
                IN  d # U32Zero /\ U32Less(d, U32Pow31)
    /\ \A i \in 1 .. Len(retired) :
          \A k \in 1 .. Len(timelines[retired[i].ring_idx].fences) :
             fence_pool[timelines[retired[i].ring_idx].fences[k]].sub > retired[i].sub

\* two fences of ring 0 were retired, the second with a seqno that wrapped to 0
C1_Witness ==
    \E i, j \in 1 .. Len(retired) :
       /\ i < j
       /\ retired[i].ring_idx = 0 /\ retired[j].ring_idx = 0
       /\ retired[i].seqno = <<Half - 1, Half - 1>>
       /\ retired[j].seqno = U32Zero

C2_State ==
    /\ \A i, j \in 1 .. Len(retired) : i # j => retired[i].sub # retired[j].sub
    /\ \A i \in 1 .. Len(retired) :
          /\ retired[i].sub \in 1 .. Len(subs)
          /\ subs[retired[i].sub].ret = 0

C2_Step == contexts = <<>> => retired' = retired

C3_ReportedFenceRetired ==
    (contexts # <<>> /\ DriverPending = {}) =>
       \A s \in 1 .. Len(subs) :
          subs[s].ret = 0 =>
             Cardinality({i \in 1 .. Len(retired) : retired[i].sub = s}) = 1

\* C4: bit i of the busy mask is set iff timeline i has a fence in flight.
C4_BusyMaskIffFences ==
    \A r \in Rings : (r \in timeline_busy_mask) <=> (timelines[r].fences # <<>>)

\* the delta rule: (uint32)(c - s) < 2^31
SignaledByDelta(fence_seqno, cur_seqno) == U32Less(U32Sub(cur_seqno, fence_seqno), U32Pow31)

\* the ring of the submission an on_retire step reports
ReportedRing == subs[CHOOSE s \in reported' \ reported : TRUE].ring_idx

C11_Step ==
    reported' # reported =>
       LET r == ReportedRing
           before == timelines[r].fences
           after == timelines'[r].fences
           n == Len(before) - Len(after)
       IN  \* the callbacks of the call are a prefix of the list, in list order
           /\ n >= 0
           /\ after = SubSeq(before, n + 1, Len(before))
           /\ Len(retired') = Len(retired) + n
           /\ \A k \in 1 .. n :
                 retired'[Len(retired) + k].sub = fence_pool[before[k]].sub
           \* and the call stops only at a fence the observed seqno does not signal
           /\ after = <<>>
              \/ ~SignaledByDelta(fence_pool[Head(after)].seqno, timelines'[r].cur_seqno)

\* C11: one on_retire call retires, in list order, the fences at the head of
\* the ring's list that the observed seqno signals, and when it returns the
\* list is empty or its head fence is not signaled by cur_seqno.
C11_RetireBatchUpToUnsignaled == [][C11_Step]_vars

\* the fence id a guest that numbers its fences like the timeline gives to
\* the next fence of a ring: the low half is the ring's next seqno
WrappedFenceId(ring_idx) ==
    IF ring_idx \in Rings THEN <<0>> \o timelines[ring_idx].next_seqno ELSE <<0, 0, 0>>

\* C16 (specification SpecWrap): across the wrap of next_seqno from 2^32 - 1
\* to 0, with on_retire observing seqnos of the same numbering, the fences of
\* a ring are retired in submission order, none twice, and a fence is retired
\* by the time the driver has reported it.
C16_WrapRetire ==
    /\ \A i, j \in 1 .. Len(retired) :
          /\ (i < j /\ retired[i].ring_idx = retired[j].ring_idx)
                => retired[i].sub < retired[j].sub
          /\ i # j => retired[i].sub # retired[j].sub
    /\ \A s \in reported :
          \E i \in 1 .. Len(retired) :
             /\ retired[i].sub = s
             /\ retired[i].seqno = subs[s].seqno
             /\ U32OfU64(retired[i].fence_id) = subs[s].seqno

\* fences with seqno 2^32 - 1, 0 and 1 were submitted on ring 0 and all retired
C16_Witness ==
    /\ Len(retired) = 3
    /\ retired[1].seqno = <<Half - 1, Half - 1>>
    /\ retired[2].seqno = U32Zero
    /\ retired[3].seqno = <<0, 1>>
    /\ timelines[0].next_seqno = <<0, 2>>

\* C17: a retire callback for a ctx_id that is not in the context table
\* retires nothing, changes no context state and returns, so the process
\* never dies in the callback.
C17_UnknownContextSwallowed == ~aborted

\* a submit_fence call whose driver hook failed: it is the call logged last
HookFailedStep == subs' # subs /\ subs'[Len(subs')].ret = -1

C18_Step ==
    HookFailedStep =>
       /\ submit_ret' = -1
       /\ \A r \in Rings : timelines'[r].fences = timelines[r].fences
       /\ timeline_busy_mask' = timeline_busy_mask

\* C18: when the driver hook fails, submit_fence returns failure and the
\* fence lists and the busy mask are what they were before the call.
C18_HookFailureRollsBack == [][C18_Step]_vars

\* a submit_fence failed in the driver hook on a ring that has a fence in
\* flight, and on a context whose other ring is idle
C18_Witness ==
    /\ subs # <<>>
    /\ subs[Len(subs)].ret = -1
    /\ submit_ret = -1
    /\ timelines[subs[Len(subs)].ring_idx].fences # <<>>
    /\ timeline_busy_mask # Rings

C19_Step ==
    (submit_ret' # 0 /\ (subs' # subs \/ submit_ret' # submit_ret)) =>
       /\ timelines' = timelines
       /\ timeline_busy_mask' = timeline_busy_mask

\* C19: a submit_fence call that returns failure (bad ring_idx, no memory,
\* driver hook failure) leaves every timeline's fence list, cur_seqno and
\* next_seqno and the busy mask as they were.
C19_FailedSubmitNoPartialState == [][C19_Step]_vars

\* C20: venus_fence_is_signaled agrees with the delta rule, signaled iff
\* (uint32)(c - s) < 2^31, on every fence in flight and the cur_seqno of its
\* ring (the deltas 0, 1, 2^31 - 1, 2^31 and 2^32 - 1 all occur).
C20_SignaledIffDeltaBelowPow31 ==
    \A r \in Rings :
       \A k \in 1 .. Len(timelines[r].fences) :
          LET fence_seqno == fence_pool[timelines[r].fences[k]].seqno
          IN  venus_fence_is_signaled(fence_seqno, timelines[r].cur_seqno)
                 <=> SignaledByDelta(fence_seqno, timelines[r].cur_seqno)

C29_Step ==
    reported' # reported =>
       LET s == CHOOSE x \in reported' \ reported : TRUE
       IN  \A i \in (Len(retired) + 1) .. Len(retired') :
              /\ retired'[i].ring_idx = subs[s].ring_idx
              /\ retired'[i].sub <= s

\* C29: no premature retirement: an on_retire that reports a fence retires only
\* that fence and fences submitted before it on the same ring, never a fence
\* submitted after it, whatever fence ids the guest chose.
C29_NoPrematureRetirement == [][C29_Step]_vars

(***************************************************************************)
(* venus_context.c: resource tracking (specification SpecResources)        *)
(***************************************************************************)
\* res_id arguments
ResIdInputs == {1, 2, 3}
\* res->fd_type of an attached resource (the assert admits only these two)
AttachFdTypes == {"VIRGL_RESOURCE_FD_INVALID", "VIRGL_RESOURCE_FD_DMABUF"}

venus_context_resource_find(table, res_id) == res_id \in table

venus_context_resource_add(table, res_id) == table \cup {res_id}

venus_context_resource_remove_keep(table, res_id) == table
venus_context_resource_remove(table, res_id) == table \ {res_id}

\* the renderer's side of vkr_renderer_import_resource / create_resource /
\* destroy_resource: a second resource with the same id is refused, an unknown
\* id is ignored by destroy
RendererAdd(held, res_id, ok) == IF ok /\ res_id \notin held THEN held \cup {res_id} ELSE held
RendererAddOk(held, res_id, ok) == ok /\ res_id \notin held
RendererDestroy(held, res_id) == held \ {res_id}

\* the history keeps the last two calls
ResLog(entry) == IF Len(res_hist) < 2 THEN Append(res_hist, entry)
                 ELSE <<res_hist[2], entry>>

ResInit ==
    /\ resource_table = {}
    /\ renderer_resources = {}
    /\ res_hist = <<>>

\* venus_context_attach_resource
AttachResource(res_id, fd_type, import_ok) ==
    LET entry == [op |-> "attach", res_id |-> res_id, pre |-> resource_table]
    IN  IF venus_context_resource_find(resource_table, res_id)
        THEN /\ res_hist' = ResLog(entry @@ [calls |-> <<>>, ret |-> 0])
             /\ UNCHANGED <<resource_table, renderer_resources>>
        ELSE /\ renderer_resources' = RendererAdd(renderer_resources, res_id, import_ok)
             /\ resource_table' = venus_context_resource_add(resource_table, res_id)
             /\ res_hist' = ResLog(entry @@
                                   [calls |-> <<<<"import_resource", res_id, fd_type, -1>>>>,
                                    ret |-> 0])

\* venus_context_detach_resource
DetachResource(res_id) ==
    LET entry == [op |-> "detach", res_id |-> res_id, pre |-> resource_table]
    IN  IF ~venus_context_resource_find(resource_table, res_id)
        THEN /\ res_hist' = ResLog(entry @@ [calls |-> <<>>, ret |-> 0])
             /\ UNCHANGED <<resource_table, renderer_resources>>
        ELSE /\ renderer_resources' = RendererDestroy(renderer_resources, res_id)
             /\ resource_table' = venus_context_resource_remove(resource_table, res_id)
             /\ res_hist' = ResLog(entry @@
                                   [calls |-> <<<<"destroy_resource", res_id>>>>, ret |-> 0])

\* venus_context_get_blob; a res_id already tracked trips the assert of
\* venus_context_resource_add (without assertions the insert replaces the key)
GetBlob(res_id, create_ok) ==
    LET entry == [op |-> "get_blob", res_id |-> res_id, pre |-> resource_table,
                  calls |-> <<<<"create_resource", res_id>>>>]
    IN  IF ~RendererAddOk(renderer_resources, res_id, create_ok)
        THEN /\ res_hist' = ResLog(entry @@ [ret |-> -1])
             /\ UNCHANGED <<resource_table, renderer_resources>>
        ELSE /\ renderer_resources' = RendererAdd(renderer_resources, res_id, create_ok)
             /\ resource_table' = venus_context_resource_add(resource_table, res_id)
             /\ res_hist' = ResLog(entry @@ [ret |-> 0])

\* C8: attaching an id that is not tracked and then detaching it leaves the
\* resource table as it was before the two calls; detaching an id that is not
\* tracked changes nothing and sends no destroy to the renderer.
C8_AttachDetachRoundTrip ==
    /\ (/\ Len(res_hist) = 2
        /\ res_hist[1].op = "attach" /\ res_hist[2].op = "detach"
        /\ res_hist[1].res_id = res_hist[2].res_id
        /\ res_hist[1].res_id \notin res_hist[1].pre)
         => resource_table = res_hist[1].pre
    /\ \A i \in 1 .. Len(res_hist) :
          (res_hist[i].op = "detach" /\ res_hist[i].res_id \notin res_hist[i].pre) =>
             /\ res_hist[i].calls = <<>>
             /\ (i = Len(res_hist) => resource_table = res_hist[i].pre)

\* an untracked id was attached to a non-empty table and detached again
C8_Witness ==
    /\ Len(res_hist) = 2
    /\ res_hist[1].op = "attach" /\ res_hist[2].op = "detach"
    /\ res_hist[1].res_id = res_hist[2].res_id
    /\ res_hist[1].res_id \notin res_hist[1].pre
    /\ res_hist[1].pre # {}
    /\ res_hist[2].calls # <<>>

\* C32: the resource table holds a res_id exactly when the renderer holds a
\* resource of that id for this context; an attach whose import failed adds
\* nothing, so no detach sends a destroy for a resource the renderer never
\* created.
C32_TableIffRendererHolds ==
    \A res_id \in ResIdInputs :
        res_id \in resource_table <=> res_id \in renderer_resources

(***************************************************************************)
(* vkr_context.h: object registry and fatal flag (specification            *)
(* SpecObjects).  An object instance is numbered when it is inserted;      *)
(* object_table maps an id to the instance stored under it, 0 for none.    *)
(***************************************************************************)
\* number of objects inserted over the life of the context
MaxObjects == 3
\* object ids the guest may name
ObjIdInputs == {0, 1, 2}
ObjIds == ObjIdInputs \ {0}
\* the parents (devices, pools) whose child lists track objects
Parents == {1, 2}

vkr_context_set_fatal_toggle(fatal) == ~fatal
vkr_context_set_fatal(fatal) == TRUE

vkr_context_get_fatal == cs_fatal_error

\* _mesa_hash_table_search(ctx->object_table, &id)
ObjectSearch(table, id) == IF id \in DOMAIN table THEN table[id] ELSE 0

\* the value vkr_context_validate_object_id returns
vkr_context_validate_object_id_nosearch(table, id) == id # 0
vkr_context_validate_object_id(table, id) == ~(id = 0 \/ ObjectSearch(table, id) # 0)

\* the fatal flag after vkr_context_validate_object_id
FatalAfterValidate(fatal, table, id) ==
    IF vkr_context_validate_object_id(table, id) THEN fatal
    ELSE vkr_context_set_fatal(fatal)

\* vkr_context_add_object
vkr_context_add_object(table, id, inst) == [table EXCEPT ![id] = inst]

\* vkr_context_remove_object_locked on the object instance inst; reg is the
\* registry [table, calls]: the entry found under the object's id has its
\* destructor run (vkr_context_free_object) and is removed
vkr_context_remove_object_locked_keep(reg, inst) ==
    LET entry == ObjectSearch(reg.table, instance_id[inst])
    IN  IF entry # 0
        THEN [reg EXCEPT !.calls[entry] = @ + 1,
                         !.held[entry] = IF reg.mutex THEN "held" ELSE "dropped"]
        ELSE reg
vkr_context_remove_object_locked(reg, inst) ==
    LET entry == ObjectSearch(reg.table, instance_id[inst])
    IN  IF entry # 0
        THEN [reg EXCEPT !.table[instance_id[inst]] = 0,
                         !.calls[entry] = @ + 1,
                         !.held[entry] = IF reg.mutex THEN "held" ELSE "dropped"]
        ELSE reg

\* mtx_lock(&ctx->object_mutex) and mtx_unlock(&ctx->object_mutex)
mtx_lock(reg) == [reg EXCEPT !.mutex = TRUE]
mtx_unlock(reg) == [reg EXCEPT !.mutex = FALSE]

\* vkr_context_remove_object
vkr_context_remove_object(reg, inst) ==
    mtx_unlock(vkr_context_remove_object_locked(mtx_lock(reg), inst))

\* the LIST_FOR_EACH_ENTRY_SAFE loop of vkr_context_remove_objects
RECURSIVE RemoveObjectsLoop(_, _)
RemoveObjectsLoop(reg, objects) ==
    IF objects = <<>> THEN reg
    ELSE RemoveObjectsLoop(vkr_context_remove_object_locked(reg, Head(objects)),
                           Tail(objects))

\* vkr_context_remove_objects
vkr_context_remove_objects(reg, objects) ==
    mtx_unlock(RemoveObjectsLoop(mtx_lock(reg), objects))

\* every entry still in the table, in id order (context destruction)
RECURSIVE TableEntries(_, _)
TableEntries(table, ids) ==
    IF ids = {} THEN <<>>
    ELSE LET id == CHOOSE x \in ids : \A y \in ids : x <= y
         IN  (IF table[id] # 0 THEN <<table[id]>> ELSE <<>>)
             \o TableEntries(table, ids \ {id})

\* the registry as the removal functions see it; no thread holds object_mutex
\* between two operations
Registry ==
    [table |-> object_table, calls |-> destructor_calls, mutex |-> FALSE,
     held |-> destructor_mutex]

NoValidate == [tick |-> 0, id |-> 0, ret |-> FALSE, inserted |-> FALSE]

NoCmd == [size |-> 0, frames |-> <<>>, ret |-> 0, forwarded |-> FALSE,
          dispatched |-> 0, pre_fatal |-> FALSE, calls |-> 0]

ObjInit ==
    /\ object_table = [id \in ObjIds |-> 0]
    /\ cs_fatal_error = FALSE
    /\ track_lists = [p \in Parents |-> <<>>]
    /\ destructor_calls = <<>>
    /\ instance_id = <<>>
    /\ vkr_destroyed = FALSE
    /\ after_fatal = FALSE
    /\ cmd_last = NoCmd
    /\ validate_last = NoValidate
    /\ destructor_mutex = <<>>

\* a create command: vkr_context_alloc_object (validate the id), the driver
\* call, then vkr_context_add_object and the link into the parent's list
CreateObject(id, parent, driver_ok) ==
    /\ ~vkr_destroyed
    /\ Len(instance_id) < MaxObjects
    /\ cs_fatal_error' = FatalAfterValidate(cs_fatal_error, object_table, id)
    /\ after_fatal' = (after_fatal \/ cs_fatal_error)
    /\ IF vkr_context_validate_object_id(object_table, id) /\ driver_ok
       THEN LET inst == Len(instance_id) + 1
            IN  /\ object_table' = vkr_context_add_object(object_table, id, inst)
                /\ instance_id' = Append(instance_id, id)
                /\ destructor_calls' = Append(destructor_calls, 0)
                /\ destructor_mutex' = Append(destructor_mutex, "not_run")
                /\ track_lists' = [track_lists EXCEPT ![parent] = list_addtail(@, inst)]
       ELSE UNCHANGED <<object_table, instance_id, destructor_calls, destructor_mutex,
                        track_lists>>
    /\ validate_last' = [tick |-> 1 - validate_last.tick, id |-> id,
                         ret |-> vkr_context_validate_object_id(object_table, id),
                         inserted |-> vkr_context_validate_object_id(object_table, id)
                                         /\ driver_ok]
    /\ UNCHANGED <<vkr_destroyed, cmd_last>>

\* a destroy command on a live object: the handler unlinks the object from its
\* parent's list and calls vkr_context_remove_object
RemoveObject(id) ==
    /\ ~vkr_destroyed
    /\ ObjectSearch(object_table, id) # 0
    /\ LET inst == object_table[id]
           reg == vkr_context_remove_object(Registry, inst)
       IN  /\ object_table' = reg.table
           /\ destructor_calls' = reg.calls
           /\ destructor_mutex' = reg.held
           /\ track_lists' = [p \in Parents |-> list_del(track_lists[p], inst)]
    /\ after_fatal' = (after_fatal \/ cs_fatal_error)
    /\ UNCHANGED <<cs_fatal_error, instance_id, vkr_destroyed, cmd_last, validate_last>>

\* vkr_context_remove_objects on a parent's child list; the caller
\* reinitializes the list afterwards
RemoveObjects(parent) ==
    /\ ~vkr_destroyed
    /\ track_lists[parent] # <<>>
    /\ LET reg == vkr_context_remove_objects(Registry, track_lists[parent])
       IN  /\ object_table' = reg.table
           /\ destructor_calls' = reg.calls
           /\ destructor_mutex' = reg.held
    /\ track_lists' = [track_lists EXCEPT ![parent] = <<>>]
    /\ after_fatal' = (after_fatal \/ cs_fatal_error)
    /\ UNCHANGED <<cs_fatal_error, instance_id, vkr_destroyed, cmd_last, validate_last>>

\* vkr_context_destroy: every object still in the table is destroyed
VkrContextDestroy ==
    /\ ~vkr_destroyed
    /\ LET reg == RemoveObjectsLoop(Registry, TableEntries(object_table, ObjIds))
       IN  /\ object_table' = reg.table
           /\ destructor_calls' = reg.calls
           /\ destructor_mutex' = reg.held
    /\ track_lists' = [p \in Parents |-> <<>>]
    /\ vkr_destroyed' = TRUE
    /\ after_fatal' = (after_fatal \/ cs_fatal_error)
    /\ UNCHANGED <<cs_fatal_error, instance_id, cmd_last, validate_last>>

C5_Step == cs_fatal_error => cs_fatal_error'

\* C5: the fatal flag is sticky: no step takes it from true to false.
C5_FatalSticky == [][C5_Step]_vars

\* the flag is set and an operation ran after it was set
C5_Witness == cs_fatal_error /\ after_fatal /\ vkr_context_get_fatal

C7_State ==
    /\ \A inst \in 1 .. Len(instance_id) :
          /\ destructor_calls[inst] <= 1
          /\ destructor_calls[inst] = 1 => object_table[instance_id[inst]] # inst
          /\ vkr_destroyed => destructor_calls[inst] = 1

\* an entry that leaves the table has had its destructor run
C7_Step ==
    \A id \in ObjIds :
       (object_table[id] # 0 /\ object_table'[id] # object_table[id]) =>
          destructor_calls'[object_table[id]] = 1

\* C7: every object inserted into the registry has its destructor run exactly
\* once over the life of the context: remove and remove_all run it once and
\* drop the entry, no object is destroyed twice, none stays in the table after
\* its destructor ran, and none is left undestroyed by context destruction.
C7_DestructorOnce == []C7_State /\ [][C7_Step]_vars

\* MaxObjects objects were inserted, an id was reused after its object had
\* been removed, and the context was destroyed
C7_Witness ==
    /\ vkr_destroyed
    /\ Len(instance_id) = MaxObjects
    /\ \E i, j \in 1 .. Len(instance_id) : i # j /\ instance_id[i] = instance_id[j]

C21_Step ==
    validate_last' # validate_last =>
       LET v == validate_last'
       IN  /\ v.ret <=> (v.id # 0 /\ object_table[v.id] = 0)
           /\ ~v.ret => (cs_fatal_error' /\ object_table' = object_table)
           /\ v.ret =>
                 /\ cs_fatal_error' = cs_fatal_error
                 /\ ~v.inserted => object_table' = object_table
                 /\ \A id \in ObjIds \ {v.id} : object_table'[id] = object_table[id]

\* C21: validate(id) returns true exactly when id is non-zero and no object is
\* stored under it; a false return has set the fatal flag, and a true return
\* has changed neither the flag nor the table (only the insert that follows a
\* successful driver call writes the entry of that id).
C21_ValidateObjectId == [][C21_Step]_vars

\* validate refused an id that is in use and the context is fatal
C21_Witness ==
    /\ validate_last.id # 0
    /\ ~validate_last.ret
    /\ object_table[validate_last.id] # 0
    /\ cs_fatal_error

\* C28: no destructor runs while object_mutex is held, neither in the removal
\* of one object nor in the removal of a parent's children.
C28_DestructorsOutsideMutex ==
    \A inst \in 1 .. Len(destructor_mutex) : destructor_mutex[inst] # "held"

(***************************************************************************)
(* submit_cmd (specification SpecDispatch): venus_context_submit_cmd hands  *)
(* the buffer to the renderer, whose dispatch loop runs one handler per     *)
(* frame.  A frame here is one create command; its id is what the guest     *)
(* chose, 0 and ids in use included.                                        *)
(***************************************************************************)
\* frames in one command buffer
MaxFrames == 2

Frames == [id : ObjIdInputs, parent : {1}, driver_ok : BOOLEAN]

\* the command buffers: up to MaxFrames frames
CmdBuffers == UNION {[1 .. n -> Frames] : n \in 0 .. MaxFrames}

\* the registry as the dispatch loop passes it from frame to frame
RegistryNow ==
    [table |-> object_table, fatal |-> cs_fatal_error, lists |-> track_lists,
     calls |-> destructor_calls, ids |-> instance_id, held |-> destructor_mutex]

\* the handler of a create command (see CreateObject)
DispatchCreate(st, f) ==
    IF vkr_context_validate_object_id(st.table, f.id) /\ f.driver_ok
    THEN LET inst == Len(st.ids) + 1
         IN  [table |-> vkr_context_add_object(st.table, f.id, inst),
              fatal |-> st.fatal,
              lists |-> [st.lists EXCEPT ![f.parent] = list_addtail(@, inst)],
              calls |-> Append(st.calls, 0),
              ids |-> Append(st.ids, f.id),
              held |-> Append(st.held, "not_run")]
    ELSE [st EXCEPT !.fatal = FatalAfterValidate(st.fatal, st.table, f.id)]

\* the dispatch loop: after a handler, a fatal context drains the rest of the
\* frames without executing them
RECURSIVE DispatchLoop(_, _, _)
DispatchLoop(st, frames, n) ==
    IF frames = <<>> THEN [st |-> st, dispatched |-> n, ok |-> TRUE]
    ELSE LET st1 == DispatchCreate(st, Head(frames))
         IN  IF st1.fatal THEN [st |-> st1, dispatched |-> n + 1, ok |-> FALSE]
             ELSE DispatchLoop(st1, Tail(frames), n + 1)

\* vkr_renderer_submit_cmd / vkr_context_submit_cmd: a fatal context bails out
\* before the first frame
vkr_context_submit_cmd_nobail(st, frames) == DispatchLoop(st, frames, 0)
vkr_context_submit_cmd(st, frames) ==
    IF st.fatal THEN [st |-> st, dispatched |-> 0, ok |-> FALSE]
    ELSE DispatchLoop(st, frames, 0)

\* if (!size) return 0: whether venus_context_submit_cmd calls the renderer
SubmitCmdForwards_always(size) == TRUE
SubmitCmdForwards(size) == size # 0

\* venus_context_submit_cmd.  frames is what the buffer pointer points at, size
\* the byte count, counted here in frames.
SubmitCmd(frames, size) ==
    /\ ~vkr_destroyed
    /\ Len(instance_id) + Len(frames) <= MaxObjects
    /\ LET fwd == SubmitCmdForwards(size)
           r == IF fwd THEN vkr_context_submit_cmd(RegistryNow, frames)
                ELSE [st |-> RegistryNow, dispatched |-> 0, ok |-> TRUE]
       IN  /\ object_table' = r.st.table
           /\ cs_fatal_error' = r.st.fatal
           /\ track_lists' = r.st.lists
           /\ destructor_calls' = r.st.calls
           /\ instance_id' = r.st.ids
           /\ destructor_mutex' = r.st.held
           /\ cmd_last' = [size |-> size, frames |-> frames,
                           ret |-> IF r.ok THEN 0 ELSE -1,
                           forwarded |-> fwd,
                           dispatched |-> r.dispatched,
                           pre_fatal |-> cs_fatal_error,
                           calls |-> IF cmd_last.calls < 2 THEN cmd_last.calls + 1
                                     ELSE cmd_last.calls]
    /\ after_fatal' = (after_fatal \/ cs_fatal_error)
    /\ UNCHANGED <<vkr_destroyed, validate_last>>

C12_State ==
    /\ cmd_last.pre_fatal => (cmd_last.dispatched = 0 /\ cs_fatal_error)
    /\ vkr_destroyed =>
          /\ \A id \in ObjIds : object_table[id] = 0
          /\ \A inst \in 1 .. Len(instance_id) : destructor_calls[inst] = 1

C12_Step ==
    (cs_fatal_error /\ ~vkr_destroyed') =>
       /\ object_table' = object_table
       /\ track_lists' = track_lists
       /\ destructor_calls' = destructor_calls
       /\ instance_id' = instance_id

\* C12: once the fatal flag is set, a submit_cmd dispatches none of its frames
\* and leaves the registry as it is, and the destruction of the context still
\* destroys every object.
C12_FatalStopsDispatch == []C12_State /\ [][C12_Step]_vars

\* a command with object id 0 set the flag, a later non-empty submit_cmd was
\* refused, and the context with its objects was destroyed
C12_Witness ==
    /\ cmd_last.pre_fatal
    /\ cmd_last.size > 0
    /\ cmd_last.ret = -1
    /\ vkr_destroyed
    /\ instance_id # <<>>

C14_Step ==
    (cmd_last' # cmd_last /\ cmd_last'.size = 0) =>
       UNCHANGED <<object_table, cs_fatal_error, track_lists, destructor_calls,
                   instance_id, vkr_destroyed>>

\* C14: submit_cmd with size 0 returns 0, forwards nothing to the renderer and
\* changes no state of the context, whatever the buffer holds.
C14_ZeroSizeNoOp ==
    /\ [](cmd_last.size = 0 =>
            (cmd_last.ret = 0 /\ ~cmd_last.forwarded /\ cmd_last.dispatched = 0))
    /\ [][C14_Step]_vars

\* a size-0 submit_cmd whose buffer holds a command came back
C14_Witness ==
    /\ cmd_last.calls >= 1
    /\ cmd_last.size = 0
    /\ cmd_last.frames # <<>>
    /\ cmd_last.ret = 0

(***************************************************************************)
(* vkr_context.h: device memory.  A physical device with fixed memory       *)
(* types, one vkr context with its resource table and its device-memory     *)
(* objects, and the process's file-descriptor table.                        *)
(***************************************************************************)
MaxFds == 3

Fds == 0 .. (MaxFds - 1)

MemIdInputs == {1}

VkrResIdInputs == {1, 2}

VkrResIds == {1}

Closed == <<"closed", 0>>

VkMemoryTypes == [i \in 0 .. 2 |->
    CASE i = 0 -> {}
      [] i = 1 -> {"HOST_VISIBLE"}
      [] OTHER -> {"HOST_VISIBLE", "HOST_COHERENT", "HOST_CACHED"}]

memoryTypeCount == Cardinality(DOMAIN VkMemoryTypes)

MemTypeIndexInputs == 0 .. memoryTypeCount

\* VkMemoryAllocateInfo::allocationSize, a uint64_t as <<top, hi, lo>>
\* 4096, 2^32 - 1 and 2^32
AllocationSizes == {<<0, 0, 4096>>, <<0, Half - 1, Half - 1>>, <<1, 0, 0>>}

NoExportInfo == [present |-> FALSE, handleTypes |-> {}]

ExportInfoInputs == {NoExportInfo} \cup
    {[present |-> TRUE, handleTypes |-> h] :
        h \in {{"OPAQUE_FD"}, {"DMA_BUF"}, {"OPAQUE_FD", "DMA_BUF"}}}

BlobFlagInputs == SUBSET {"USE_MAPPABLE", "USE_CROSS_DEVICE"}

\* what gbm and the driver answer during one vkAllocateMemory
AllocOutcomes ==
    {[create_ok |-> TRUE, get_fd |-> "ok", driver_ok |-> TRUE],
     [create_ok |-> TRUE, get_fd |-> "ok", driver_ok |-> FALSE],
     [create_ok |-> FALSE, get_fd |-> "ok", driver_ok |-> TRUE],
     [create_ok |-> TRUE, get_fd |-> "EMFILE", driver_ok |-> TRUE],
     [create_ok |-> TRUE, get_fd |-> "EIO", driver_ok |-> TRUE]}

GbmOk(o) == o.create_ok /\ o.get_fd = "ok"

\* the vkAllocateMemory calls.  The answers of gbm and a size above UINT32_MAX
\* are only read when a host-visible type is allocated without a resource,
\* nothing else is read after an invalid type index or after a resource id
\* that no resource ever has, and dup_ok (whether the process can get one more
\* descriptor) only with a resource; calls that differ only in an unread
\* input appear once.
AllocInputs ==
    {a \in [id : MemIdInputs, mem_type_index : MemTypeIndexInputs,
            res_id : {0} \cup VkrResIdInputs, export_info : ExportInfoInputs,
            size : AllocationSizes, outcome : AllocOutcomes, dup_ok : BOOLEAN] :
        /\ (a.res_id # 0 \/ a.mem_type_index \notin DOMAIN VkMemoryTypes
                \/ "HOST_VISIBLE" \notin VkMemoryTypes[a.mem_type_index])
              => (GbmOk(a.outcome) /\ a.size = <<0, 0, 4096>>)
        /\ a.mem_type_index \notin DOMAIN VkMemoryTypes
              => (a.export_info = NoExportInfo /\ a.outcome.driver_ok /\ a.res_id = 0)
        /\ a.res_id \notin VkrResIds => a.dup_ok
        /\ (a.res_id # 0 /\ a.res_id \notin VkrResIds)
              => (a.export_info = NoExportInfo /\ a.outcome.driver_ok
                     /\ a.mem_type_index = 0)}

\* the physical devices: with dma_buf export the other two capabilities do
\* not change any decision, so one such device stands for all of them
CapsInputs == {c \in [is_dma_buf_fd_export_supported : BOOLEAN,
                      is_opaque_fd_export_supported : BOOLEAN,
                      EXT_external_memory_dma_buf : BOOLEAN] :
                  c.is_dma_buf_fd_export_supported
                      => (c.is_opaque_fd_export_supported /\ c.EXT_external_memory_dma_buf)}

\* the resources a caller may hand to the context: a dma-buf or opaque fd the
\* caller opened, a shm resource
ResourceKinds == {[fd_type |-> "VIRGL_RESOURCE_FD_DMABUF", has_fd |-> TRUE],
                  [fd_type |-> "VIRGL_RESOURCE_FD_OPAQUE", has_fd |-> TRUE],
                  [fd_type |-> "VIRGL_RESOURCE_FD_SHM", has_fd |-> FALSE]}

FreeFds(fdt) == {fd \in Fds : fdt[fd] = Closed}

\* the kernel hands out the lowest free descriptor; -1 when the table is full
LowestFreeFd(fdt) ==
    IF FreeFds(fdt) = {} THEN -1
    ELSE CHOOSE fd \in FreeFds(fdt) : \A g \in FreeFds(fdt) : fd <= g

CloseFd(fdt, fd) == IF fd \in Fds THEN [fdt EXCEPT ![fd] = Closed] ELSE fdt

\* os_dupfd_cloexec: a new descriptor for the same open file description
os_dupfd_cloexec(fdt, fd) ==
    IF fd \in Fds /\ fdt[fd] # Closed THEN LowestFreeFd(fdt) ELSE -1

DupFd(fdt, fd, newfd) ==
    IF newfd \in Fds /\ newfd # fd /\ fd \in Fds THEN [fdt EXCEPT ![newfd] = fdt[fd]]
    ELSE fdt

vkr_context_get_resource(resources, res_id) == res_id \in DOMAIN resources

\* int fd = os_dupfd_cloexec(res->u.fd)
ImportFdFromResource_nodup(fdt, res) == res.fd
ImportFdFromResource(fdt, res) == os_dupfd_cloexec(fdt, res.fd)

\* the outcome of translating VkImportMemoryResourceInfoMESA: ok, whether the
\* context turned fatal, the descriptor and handle type put in the chain
vkr_get_fd_info_from_resource_info_nofatal(resources, fdt, res_id, dup_ok) ==
    IF ~vkr_context_get_resource(resources, res_id)
    THEN [ok |-> FALSE, fatal |-> FALSE, fd |-> -1, handleType |-> "none"]
    ELSE LET res == resources[res_id]
             fd == IF dup_ok THEN ImportFdFromResource(fdt, res) ELSE -1
         IN  IF res.fd_type \notin {"VIRGL_RESOURCE_FD_DMABUF", "VIRGL_RESOURCE_FD_OPAQUE"}
                   \/ fd < 0
             THEN [ok |-> FALSE, fatal |-> FALSE, fd |-> -1, handleType |-> "none"]
             ELSE [ok |-> TRUE, fatal |-> FALSE, fd |-> fd,
                   handleType |-> IF res.fd_type = "VIRGL_RESOURCE_FD_DMABUF"
                                  THEN "DMA_BUF" ELSE "OPAQUE_FD"]
vkr_get_fd_info_from_resource_info(resources, fdt, res_id, dup_ok) ==
    IF ~vkr_context_get_resource(resources, res_id)
    THEN [ok |-> FALSE, fatal |-> TRUE, fd |-> -1, handleType |-> "none"]
    ELSE LET res == resources[res_id]
             fd == IF dup_ok THEN ImportFdFromResource(fdt, res) ELSE -1
         IN  IF res.fd_type \notin {"VIRGL_RESOURCE_FD_DMABUF", "VIRGL_RESOURCE_FD_OPAQUE"}
             THEN [ok |-> FALSE, fatal |-> FALSE, fd |-> -1, handleType |-> "none"]
             ELSE IF fd < 0
             THEN [ok |-> FALSE, fatal |-> FALSE, fd |-> -1, handleType |-> "none"]
             ELSE [ok |-> TRUE, fatal |-> FALSE, fd |-> fd,
                   handleType |-> IF res.fd_type = "VIRGL_RESOURCE_FD_DMABUF"
                                  THEN "DMA_BUF" ELSE "OPAQUE_FD"]

\* align(value, 4096) on a uint64_t: (value + 4095) & ~4095
Align4096(v) ==
    LET lo == ((v[3] + 4095) \div 4096) * 4096
        hi == v[2] + (IF lo >= Half THEN 1 ELSE 0)
    IN  <<v[1] + (IF hi >= Half THEN 1 ELSE 0), hi % Half, lo % Half>>

\* the uint32_t width gbm_bo_create receives for an allocation size
GbmWidth(size) == U32OfU64(Align4096(size))

\* whether vkr_get_fd_info_from_allocation_info gets as far as gbm_bo_create
GbmCreateCalled(size) == size[1] = 0

\* what vkr_gbm_bo_get_fd answers: EMFILE also when the descriptor table is full
GbmGetFd(fdt, get_fd) ==
    IF get_fd = "ok" /\ LowestFreeFd(fdt) < 0 THEN "EMFILE" ELSE get_fd

\* the outcome of the gbm allocation: VkResult, whether a bo exists, its fd
vkr_get_fd_info_from_allocation_info_noemfile(fdt, size, create_ok, get_fd) ==
    IF size[1] > 0 \/ ~create_ok
    THEN [ret |-> "VK_ERROR_OUT_OF_DEVICE_MEMORY", gbm_bo |-> FALSE, fd |-> -1]
    ELSE IF GbmGetFd(fdt, get_fd) # "ok"
    THEN [ret |-> "VK_ERROR_OUT_OF_HOST_MEMORY", gbm_bo |-> FALSE, fd |-> -1]
    ELSE [ret |-> "VK_SUCCESS", gbm_bo |-> TRUE, fd |-> LowestFreeFd(fdt)]
vkr_get_fd_info_from_allocation_info(fdt, size, create_ok, get_fd) ==
    IF size[1] > 0
    THEN [ret |-> "VK_ERROR_OUT_OF_DEVICE_MEMORY", gbm_bo |-> FALSE, fd |-> -1]
    ELSE IF ~create_ok
    THEN [ret |-> "VK_ERROR_OUT_OF_DEVICE_MEMORY", gbm_bo |-> FALSE, fd |-> -1]
    ELSE IF get_fd = "EMFILE" \/ (get_fd = "ok" /\ LowestFreeFd(fdt) < 0)
    THEN [ret |-> "VK_ERROR_TOO_MANY_OBJECTS", gbm_bo |-> FALSE, fd |-> -1]
    ELSE IF get_fd # "ok"
    THEN [ret |-> "VK_ERROR_OUT_OF_HOST_MEMORY", gbm_bo |-> FALSE, fd |-> -1]
    ELSE [ret |-> "VK_SUCCESS", gbm_bo |-> TRUE, fd |-> LowestFreeFd(fdt)]

no_dma_buf_export(e) == ~e.present \/ "DMA_BUF" \notin e.handleTypes

\* which way vkAllocateMemory makes a host-visible memory external
ExternalPath_opaque_any(c, property_flags, has_res_info, e) ==
    IF "HOST_VISIBLE" \in property_flags /\ ~has_res_info
    THEN IF c.is_dma_buf_fd_export_supported \/ c.is_opaque_fd_export_supported
         THEN "export"
         ELSE IF c.EXT_external_memory_dma_buf THEN "gbm" ELSE "none"
    ELSE "none"
ExternalPath(c, property_flags, has_res_info, e) ==
    IF "HOST_VISIBLE" \in property_flags /\ ~has_res_info
    THEN IF c.is_dma_buf_fd_export_supported
            \/ (c.is_opaque_fd_export_supported /\ no_dma_buf_export(e))
         THEN "export"
         ELSE IF c.EXT_external_memory_dma_buf THEN "gbm" ELSE "none"
    ELSE "none"

\* the VkExportMemoryAllocateInfo the driver sees
ForcedExportInfo(c, path, e) ==
    CASE path = "export" ->
            [present |-> TRUE,
             handleTypes |-> e.handleTypes \cup
                {IF c.is_dma_buf_fd_export_supported THEN "DMA_BUF" ELSE "OPAQUE_FD"}]
      [] path = "gbm" -> NoExportInfo
      [] OTHER -> e

ValidFdTypes(path, e) ==
    (IF path = "gbm" THEN {"VIRGL_RESOURCE_FD_DMABUF"} ELSE {})
    \cup (IF e.present /\ "OPAQUE_FD" \in e.handleTypes
          THEN {"VIRGL_RESOURCE_FD_OPAQUE"} ELSE {})
    \cup (IF e.present /\ "DMA_BUF" \in e.handleTypes
          THEN {"VIRGL_RESOURCE_FD_DMABUF"} ELSE {})

\* vkr_context_validate_object_id on the table of device memories
MemIdValid(table, id) == ~(id = 0 \/ id \in DOMAIN table)

NoBlob == [type |-> "none", fd |-> -1, map_ptr |-> NULL, map_info |-> "none",
           vulkan_info |-> "none"]

NoHist == [op |-> "none", id |-> 0, ret |-> "none", known |-> FALSE,
           pre_mem |-> <<>>, res_id |-> 0,
           res_known |-> FALSE, pre_res |-> <<>>, pre_desc |-> Closed,
           driver_called |-> FALSE, passed_fd |-> -1, passed_desc |-> Closed,
           passed_handle |-> "none", driver_export |-> NoExportInfo,
           blob_flags |-> {}, map_ok |-> FALSE,
           mem_type_index |-> 0, export_in |-> NoExportInfo,
           dup_failed |-> FALSE, create_failed |-> FALSE, get_fd |-> "none",
           size |-> <<0, 0, 0>>, gbm_path |-> FALSE, gbm_called |-> FALSE,
           gbm_width |-> U32Zero, gbm_bo |-> FALSE]

MemInit ==
    /\ caps \in CapsInputs
    /\ vkr_resources = [i \in {} |-> 0]
    /\ fd_table = [fd \in Fds |-> Closed]
    /\ mems = [i \in {} |-> 0]
    /\ mem_fatal = FALSE
    /\ out_blob = NoBlob
    /\ mem_last = NoHist

\* vkr_context_import_resource: the context records the resource; the fd, when
\* there is one, was opened by the caller and now belongs to the resource
ImportResource(res_id, kind) ==
    /\ res_id \notin DOMAIN vkr_resources
    /\ kind.has_fd => LowestFreeFd(fd_table) >= 0
    /\ LET fd == IF kind.has_fd THEN LowestFreeFd(fd_table) ELSE -1
           res == [fd_type |-> kind.fd_type, fd |-> fd]
       IN  /\ vkr_resources' = [i \in DOMAIN vkr_resources \cup {res_id} |->
                                   IF i = res_id THEN res ELSE vkr_resources[i]]
           /\ fd_table' = IF fd >= 0 THEN [fd_table EXCEPT ![fd] = <<"res", res_id>>]
                          ELSE fd_table
    /\ mem_last' = [NoHist EXCEPT !.op = "import_resource", !.res_id = res_id]
    /\ out_blob' = NoBlob
    /\ UNCHANGED <<caps, mems, mem_fatal>>

\* vkr_context_destroy_resource: the resource is dropped and its fd closed
DestroyResource(res_id) ==
    /\ res_id \in DOMAIN vkr_resources
    /\ vkr_resources' = [i \in DOMAIN vkr_resources \ {res_id} |-> vkr_resources[i]]
    /\ fd_table' = CloseFd(fd_table, vkr_resources[res_id].fd)
    /\ mem_last' = [NoHist EXCEPT !.op = "destroy_resource", !.res_id = res_id]
    /\ out_blob' = NoBlob
    /\ UNCHANGED <<caps, mems, mem_fatal>>

\* vkr_dispatch_vkAllocateMemory.  res_id = 0 stands for a chain without
\* VkImportMemoryResourceInfoMESA.
AllocateMemory(a) ==
    LET id == a.id
        mem_type_index == a.mem_type_index
        res_id == a.res_id
        export_in == a.export_info
        size == a.size
        create_ok == a.outcome.create_ok
        get_fd == a.outcome.get_fd
        driver_ok == a.outcome.driver_ok
        has_res == res_id # 0
        res_known == has_res /\ vkr_context_get_resource(vkr_resources, res_id)
        hist0 == [NoHist EXCEPT !.op = "alloc", !.id = id, !.res_id = res_id,
                     !.mem_type_index = mem_type_index, !.export_in = export_in,
                     !.res_known = res_known,
                     !.pre_res = IF res_known THEN vkr_resources[res_id] ELSE <<>>,
                     !.pre_desc = IF res_known /\ vkr_resources[res_id].fd \in Fds
                                  THEN fd_table[vkr_resources[res_id].fd] ELSE Closed]
    IN
    IF mem_type_index >= memoryTypeCount
    THEN /\ mem_last' = [hist0 EXCEPT !.ret = "VK_ERROR_UNKNOWN"]
         /\ out_blob' = NoBlob
         /\ UNCHANGED <<caps, vkr_resources, fd_table, mems, mem_fatal>>
    ELSE
    LET info == IF has_res
                THEN vkr_get_fd_info_from_resource_info(vkr_resources, fd_table, res_id,
                                                        a.dup_ok)
                ELSE [ok |-> TRUE, fatal |-> FALSE, fd |-> -1, handleType |-> "none"]
    IN
    IF ~info.ok
    THEN /\ mem_last' = [hist0 EXCEPT !.ret = "VK_ERROR_INVALID_EXTERNAL_HANDLE",
                            !.dup_failed =
                               /\ res_known
                               /\ vkr_resources[res_id].fd_type \in
                                     {"VIRGL_RESOURCE_FD_DMABUF", "VIRGL_RESOURCE_FD_OPAQUE"}]
         /\ mem_fatal' = IF info.fatal THEN vkr_context_set_fatal(mem_fatal) ELSE mem_fatal
         /\ out_blob' = NoBlob
         /\ UNCHANGED <<caps, vkr_resources, fd_table, mems>>
    ELSE
    LET fdt1 == IF has_res THEN DupFd(fd_table, vkr_resources[res_id].fd, info.fd)
                ELSE fd_table
        property_flags == VkMemoryTypes[mem_type_index]
        path == ExternalPath(caps, property_flags, has_res, export_in)
        export_info == ForcedExportInfo(caps, path, export_in)
        gbm == IF path = "gbm"
               THEN vkr_get_fd_info_from_allocation_info(fdt1, size, create_ok, get_fd)
               ELSE [ret |-> "unset", gbm_bo |-> FALSE, fd |-> -1]
        histg == [hist0 EXCEPT !.size = size,
                     !.gbm_path = (path = "gbm"),
                     !.gbm_called = (path = "gbm" /\ GbmCreateCalled(size)),
                     !.gbm_width = IF path = "gbm" /\ GbmCreateCalled(size)
                                   THEN GbmWidth(size) ELSE U32Zero,
                     !.gbm_bo = gbm.gbm_bo,
                     !.create_failed = (path = "gbm" /\ GbmCreateCalled(size)
                                           /\ ~create_ok),
                     !.get_fd = IF path = "gbm" /\ GbmCreateCalled(size) /\ create_ok
                                THEN GbmGetFd(fdt1, get_fd) ELSE "none"]
    IN
    IF path = "gbm" /\ gbm.ret # "VK_SUCCESS"
    THEN /\ mem_last' = [histg EXCEPT !.ret = gbm.ret]
         /\ fd_table' = fdt1
         /\ out_blob' = NoBlob
         /\ UNCHANGED <<caps, vkr_resources, mems, mem_fatal>>
    ELSE
    LET fdt2 == IF gbm.fd >= 0 THEN [fdt1 EXCEPT ![gbm.fd] = <<"gbm", id>>] ELSE fdt1
        import_fd == IF path = "gbm" THEN gbm.fd ELSE info.fd
        import_handle == IF path = "gbm" THEN "DMA_BUF" ELSE info.handleType
        valid_fd_types == ValidFdTypes(path, export_info)
        \* vkr_device_memory_create_and_add: the id is validated, then the driver
        \* allocates; a successful import makes the descriptor the driver's
        id_ok == MemIdValid(mems, id)
        created == id_ok /\ driver_ok
        hist1 == [histg EXCEPT !.driver_called = id_ok,
                     !.passed_fd = IF id_ok THEN import_fd ELSE -1,
                     !.passed_desc = IF id_ok /\ import_fd >= 0 THEN fdt2[import_fd]
                                     ELSE Closed,
                     !.passed_handle = IF id_ok THEN import_handle ELSE "none",
                     !.driver_export = IF id_ok THEN export_info ELSE NoExportInfo,
                     !.ret = IF ~id_ok THEN gbm.ret
                             ELSE IF driver_ok THEN "VK_SUCCESS"
                             ELSE "VK_ERROR_OUT_OF_DEVICE_MEMORY"]
    IN
    /\ mem_last' = hist1
    /\ mem_fatal' = IF id_ok THEN mem_fatal ELSE vkr_context_set_fatal(mem_fatal)
    /\ fd_table' = CloseFd(fdt2, import_fd)
    /\ mems' = IF created
               THEN [i \in DOMAIN mems \cup {id} |->
                        IF i = id
                        THEN [property_flags |-> property_flags,
                              valid_fd_types |-> valid_fd_types,
                              gbm_bo |-> gbm.gbm_bo,
                              allocation_size |-> size,
                              memory_type_index |-> mem_type_index,
                              exported |-> FALSE,
                              mapped |-> FALSE,
                              exports |-> 0]
                        ELSE mems[i]]
               ELSE mems
    /\ out_blob' = NoBlob
    /\ UNCHANGED <<caps, vkr_resources>>

\* the vkAllocateMemory calls on the device at hand: the size and the answers
\* of gbm vary only where the call reaches the gbm path
AllocCalls ==
    {a \in AllocInputs :
        (\/ a.mem_type_index \notin DOMAIN VkMemoryTypes
         \/ ExternalPath(caps, VkMemoryTypes[a.mem_type_index], a.res_id # 0,
                         a.export_info) # "gbm")
           => (GbmOk(a.outcome) /\ a.size = <<0, 0, 4096>>)}

\* vkr_dispatch_vkGetMemoryResourcePropertiesMESA; the driver is asked about
\* the resource's own descriptor
GetMemoryResourceProperties(res_id, driver_ok) ==
    LET known == vkr_context_get_resource(vkr_resources, res_id)
        hist == [NoHist EXCEPT !.op = "get_props", !.res_id = res_id,
                    !.res_known = known,
                    !.pre_res = IF known THEN vkr_resources[res_id] ELSE <<>>]
    IN  /\ mem_fatal' = IF known THEN mem_fatal ELSE vkr_context_set_fatal(mem_fatal)
        /\ mem_last' =
              [hist EXCEPT !.ret =
                  IF ~known THEN "none"
                  ELSE IF vkr_resources[res_id].fd_type # "VIRGL_RESOURCE_FD_DMABUF"
                  THEN "VK_ERROR_INVALID_EXTERNAL_HANDLE"
                  ELSE IF driver_ok THEN "VK_SUCCESS"
                  ELSE "VK_ERROR_OUT_OF_HOST_MEMORY",
                  !.driver_called =
                     known /\ vkr_resources[res_id].fd_type = "VIRGL_RESOURCE_FD_DMABUF",
                  !.passed_fd =
                     IF known /\ vkr_resources[res_id].fd_type = "VIRGL_RESOURCE_FD_DMABUF"
                     THEN vkr_resources[res_id].fd ELSE -1]
        /\ out_blob' = NoBlob
        /\ UNCHANGED <<caps, vkr_resources, fd_table, mems>>

\* vkr_dispatch_vkFreeMemory
FreeMemory(id) ==
    IF id \notin DOMAIN mems
    THEN /\ mem_last' = [NoHist EXCEPT !.op = "free", !.id = id]
         /\ out_blob' = NoBlob
         /\ UNCHANGED <<caps, vkr_resources, fd_table, mems, mem_fatal>>
    ELSE /\ mem_last' = [NoHist EXCEPT !.op = "free", !.id = id, !.known = TRUE,
                            !.pre_mem = mems[id],
                            !.ret = IF mems[id].exported THEN "unmapped" ELSE "none"]
         /\ mems' = [i \in DOMAIN mems \ {id} |-> mems[i]]
         /\ out_blob' = NoBlob
         /\ UNCHANGED <<caps, vkr_resources, fd_table, mem_fatal>>

\* if (mem->exported) return false
AlreadyExported_never(mem) == FALSE
AlreadyExported(mem) == mem.exported

MapInfo(mem, blob_flags) ==
    IF "USE_MAPPABLE" \in blob_flags
    THEN IF "HOST_COHERENT" \in mem.property_flags /\ "HOST_CACHED" \in mem.property_flags
         THEN "VIRGL_RENDERER_MAP_CACHE_CACHED"
         ELSE "VIRGL_RENDERER_MAP_CACHE_WC"
    ELSE "VIRGL_RENDERER_MAP_CACHE_NONE"

\* the if / else-if chain of vkr_device_memory_export_blob that picks fd_type:
\* "refuse" for a cross-device blob without dma_buf, "map" for the branch that
\* maps the memory
ExportFdType_opaque_first(blob_flags, valid_fd_types) ==
    IF "USE_CROSS_DEVICE" \in blob_flags
    THEN IF "VIRGL_RESOURCE_FD_DMABUF" \in valid_fd_types
         THEN "VIRGL_RESOURCE_FD_DMABUF" ELSE "refuse"
    ELSE IF "VIRGL_RESOURCE_FD_OPAQUE" \in valid_fd_types THEN "VIRGL_RESOURCE_FD_OPAQUE"
    ELSE IF "VIRGL_RESOURCE_FD_DMABUF" \in valid_fd_types THEN "VIRGL_RESOURCE_FD_DMABUF"
    ELSE "map"
ExportFdType(blob_flags, valid_fd_types) ==
    LET can_export_dma_buf == "VIRGL_RESOURCE_FD_DMABUF" \in valid_fd_types
        can_export_opaque == "VIRGL_RESOURCE_FD_OPAQUE" \in valid_fd_types
    IN  IF "USE_CROSS_DEVICE" \in blob_flags
        THEN IF ~can_export_dma_buf THEN "refuse" ELSE "VIRGL_RESOURCE_FD_DMABUF"
        ELSE IF can_export_dma_buf THEN "VIRGL_RESOURCE_FD_DMABUF"
        ELSE IF can_export_opaque THEN "VIRGL_RESOURCE_FD_OPAQUE"
        ELSE "map"

\* the outcome of vkr_device_memory_export_blob: its return value, the memory
\* afterwards and what it wrote to *out_blob
vkr_device_memory_export_blob(mem, blob_flags, blob, map_ok) ==
    LET fd_type == ExportFdType(blob_flags, mem.valid_fd_types)
        map_info == MapInfo(mem, blob_flags)
        refused == [ret |-> FALSE, mem |-> mem, blob |-> blob]
    IN
    IF AlreadyExported(mem) THEN refused
    ELSE IF "USE_MAPPABLE" \in blob_flags /\ "HOST_VISIBLE" \notin mem.property_flags
    THEN refused
    ELSE IF fd_type = "refuse" THEN refused
    ELSE IF fd_type = "VIRGL_RESOURCE_FD_DMABUF"
    THEN [ret |-> TRUE,
          mem |-> [mem EXCEPT !.exported = TRUE],
          blob |-> [type |-> "VIRGL_RESOURCE_FD_DMABUF", fd |-> -1, map_ptr |-> NULL,
                    map_info |-> map_info, vulkan_info |-> "uninitialized"]]
    ELSE IF fd_type = "VIRGL_RESOURCE_FD_OPAQUE"
    THEN [ret |-> TRUE,
          mem |-> [mem EXCEPT !.exported = TRUE],
          blob |-> [type |-> "VIRGL_RESOURCE_FD_OPAQUE", fd |-> -1, map_ptr |-> NULL,
                    map_info |-> map_info, vulkan_info |-> "uuids_size_index"]]
    ELSE IF ~map_ok THEN refused
    ELSE [ret |-> TRUE,
          mem |-> [mem EXCEPT !.exported = TRUE, !.mapped = TRUE],
          blob |-> [type |-> "VIRGL_RESOURCE_OPAQUE_HANDLE", fd |-> -1, map_ptr |-> 1,
                    map_info |-> map_info, vulkan_info |-> "size_index"]]

\* a caller exports memory id into a blob it has just zero-initialised
ExportBlob(id, blob_flags, map_ok) ==
    /\ id \in DOMAIN mems
    /\ LET r == vkr_device_memory_export_blob(mems[id], blob_flags, NoBlob, map_ok)
       IN  /\ mems' = [mems EXCEPT ![id] =
                          [r.mem EXCEPT !.exports = IF r.ret /\ @ < 2 THEN @ + 1 ELSE @]]
           /\ out_blob' = r.blob
           /\ mem_last' = [NoHist EXCEPT !.op = "export", !.id = id, !.known = TRUE,
                              !.pre_mem = mems[id],
                              !.blob_flags = blob_flags,
                              !.map_ok = map_ok /\ ExportFdType(blob_flags,
                                             mems[id].valid_fd_types) = "map",
                              !.ret = IF r.ret THEN "true" ELSE "false"]
    /\ UNCHANGED <<caps, vkr_resources, fd_table, mem_fatal>>

\* C6: an export of a memory that was already exported returns false and
\* changes neither the memory nor the caller's blob, so that a memory is
\* exported successfully at most once
C6_ExportAtMostOnce ==
    /\ \A id \in DOMAIN mems : mems[id].exports <= 1
    /\ (mem_last.op = "export" /\ mem_last.pre_mem.exports >= 1)
        => /\ mem_last.ret = "false"
           /\ mems[mem_last.id] = mem_last.pre_mem
           /\ out_blob = NoBlob

\* an exported memory was asked for again and refused
C6_Witness ==
    /\ mem_last.op = "export"
    /\ mem_last.pre_mem.exports = 1
    /\ mem_last.ret = "false"
    /\ mems[mem_last.id].exported

\* C9: a successful export reports an fd >= 0 for the dma_buf and opaque
\* types, and fd = -1 only for a mapped opaque handle
C9_ExportedFdValid ==
    (mem_last.op = "export" /\ mem_last.ret = "true")
        => /\ out_blob.type \in {"VIRGL_RESOURCE_FD_DMABUF", "VIRGL_RESOURCE_FD_OPAQUE"}
                => out_blob.fd >= 0
           /\ out_blob.fd = -1
                => out_blob.type = "VIRGL_RESOURCE_OPAQUE_HANDLE" /\ out_blob.map_ptr # NULL

\* C22: an export that is not refused beforehand (memory already exported,
\* mappable blob of memory that is not host-visible) picks its type in this
\* order: cross-device gives dma_buf when dma_buf is valid and fails otherwise;
\* else dma_buf when valid; else opaque when valid, with UUIDs, allocation
\* size and memory-type index; else the mapping of the memory.  An export
\* that fails of a memory that was not exported leaves it not exported.
C22_ExportTypePriority ==
    mem_last.op = "export" =>
       LET mem == mem_last.pre_mem
           dma_buf == "VIRGL_RESOURCE_FD_DMABUF" \in mem.valid_fd_types
           opaque == "VIRGL_RESOURCE_FD_OPAQUE" \in mem.valid_fd_types
           cross == "USE_CROSS_DEVICE" \in mem_last.blob_flags
           refused_before == mem.exported
                                \/ ("USE_MAPPABLE" \in mem_last.blob_flags
                                       /\ "HOST_VISIBLE" \notin mem.property_flags)
       IN  /\ (cross /\ ~dma_buf) => mem_last.ret = "false"
           /\ (~refused_before /\ (dma_buf \/ (~cross /\ opaque)))
                 => mem_last.ret = "true"
           /\ mem_last.ret = "true" =>
                 /\ dma_buf => out_blob.type = "VIRGL_RESOURCE_FD_DMABUF"
                 /\ (~dma_buf /\ opaque) =>
                       /\ out_blob.type = "VIRGL_RESOURCE_FD_OPAQUE"
                       /\ out_blob.vulkan_info = "uuids_size_index"
                 /\ (~dma_buf /\ ~opaque) =>
                       /\ out_blob.type = "VIRGL_RESOURCE_OPAQUE_HANDLE"
                       /\ out_blob.map_ptr # NULL
           /\ (mem_last.ret = "false" /\ ~mem.exported)
                 => ~mems[mem_last.id].exported

\* a memory valid for both fd types was exported without the cross-device flag
C22_Witness ==
    /\ mem_last.op = "export"
    /\ mem_last.ret = "true"
    /\ mem_last.pre_mem.valid_fd_types
          = {"VIRGL_RESOURCE_FD_DMABUF", "VIRGL_RESOURCE_FD_OPAQUE"}
    /\ "USE_CROSS_DEVICE" \notin mem_last.blob_flags
    /\ out_blob.type = "VIRGL_RESOURCE_FD_DMABUF"

\* C23: a successful export reports cacheability cached when the memory is
\* host-coherent and host-cached, and write-combined otherwise.
C23_ExportCacheability ==
    (mem_last.op = "export" /\ mem_last.ret = "true") =>
       out_blob.map_info =
          IF "HOST_COHERENT" \in mem_last.pre_mem.property_flags
                /\ "HOST_CACHED" \in mem_last.pre_mem.property_flags
          THEN "VIRGL_RENDERER_MAP_CACHE_CACHED"
          ELSE "VIRGL_RENDERER_MAP_CACHE_WC"

\* the guest's export bits as resource fd types
GuestFdTypes(e) ==
    {t \in {"VIRGL_RESOURCE_FD_DMABUF", "VIRGL_RESOURCE_FD_OPAQUE"} :
        /\ e.present
        /\ (IF t = "VIRGL_RESOURCE_FD_DMABUF" THEN "DMA_BUF" ELSE "OPAQUE_FD")
              \in e.handleTypes}

\* the row of the externalization table an allocation falls in
C24_Row ==
    LET e == mem_last.export_in
        host_visible == "HOST_VISIBLE" \in VkMemoryTypes[mem_last.mem_type_index]
        guest_dma_buf == e.present /\ "DMA_BUF" \in e.handleTypes
    IN  IF mem_last.res_id # 0 THEN 1
        ELSE IF host_visible /\ caps.is_dma_buf_fd_export_supported THEN 2
        ELSE IF host_visible /\ caps.is_opaque_fd_export_supported /\ ~guest_dma_buf
        THEN 3
        ELSE IF host_visible /\ caps.EXT_external_memory_dma_buf THEN 4
        ELSE 5

\* C24: vkAllocateMemory applies the externalization table top to bottom,
\* first match wins: an import entry forces nothing; host-visible with
\* dma_buf export gives dma_buf plus the guest's bits; host-visible with
\* opaque export and no guest dma_buf request gives opaque plus the guest's
\* bits; host-visible with the dma_buf extension imports a gbm buffer, strips
\* the export entry and gives exactly dma_buf; otherwise the guest's bits.
C24_ExternalizationTable ==
    (mem_last.op = "alloc" /\ mem_last.mem_type_index \in DOMAIN VkMemoryTypes) =>
       LET e == mem_last.export_in
           created == mem_last.ret = "VK_SUCCESS" /\ mem_last.driver_called
           valid == mems[mem_last.id].valid_fd_types
       IN  /\ mem_last.gbm_path <=> (C24_Row = 4)
           /\ mem_last.driver_called =>
                 CASE C24_Row = 2 ->
                         mem_last.driver_export =
                            [present |-> TRUE,
                             handleTypes |-> e.handleTypes \cup {"DMA_BUF"}]
                   [] C24_Row = 3 ->
                         mem_last.driver_export =
                            [present |-> TRUE,
                             handleTypes |-> e.handleTypes \cup {"OPAQUE_FD"}]
                   [] C24_Row = 4 ->
                         /\ mem_last.driver_export = NoExportInfo
                         /\ mem_last.passed_handle = "DMA_BUF"
                         /\ mem_last.passed_fd \in Fds
                   [] OTHER -> mem_last.driver_export = e
           /\ created =>
                 CASE C24_Row = 2 ->
                         valid = {"VIRGL_RESOURCE_FD_DMABUF"} \cup GuestFdTypes(e)
                   [] C24_Row = 3 ->
                         valid = {"VIRGL_RESOURCE_FD_OPAQUE"} \cup GuestFdTypes(e)
                   [] C24_Row = 4 -> valid = {"VIRGL_RESOURCE_FD_DMABUF"}
                   [] C24_Row = 5 -> valid = GuestFdTypes(e)
                   [] OTHER -> TRUE

\* a host-visible allocation whose guest asked for dma_buf export, on a device
\* with opaque export and the dma_buf extension only, went through gbm
C24_Witness ==
    /\ mem_last.op = "alloc"
    /\ mem_last.ret = "VK_SUCCESS"
    /\ mem_last.driver_called
    /\ mem_last.gbm_path
    /\ mem_last.export_in.present
    /\ caps.is_opaque_fd_export_supported
    /\ mems[mem_last.id].valid_fd_types = {"VIRGL_RESOURCE_FD_DMABUF"}

\* C25: a memory allocated with an ImportMemoryResource entry has
\* valid_fd_types = 0, whatever else the chain carries.
C25_ImportHasNoValidFdTypes ==
    (mem_last.op = "alloc" /\ mem_last.res_id # 0 /\ mem_last.ret = "VK_SUCCESS"
        /\ mem_last.driver_called)
       => mems[mem_last.id].valid_fd_types = {}

C26_Step ==
    (mem_last'.op \in {"alloc", "get_props"} /\ mem_last'.res_id # 0
        /\ ~mem_last'.res_known) =>
       /\ mem_fatal'
       /\ mems' = mems
       /\ fd_table' = fd_table
       /\ ~mem_last'.driver_called
       /\ mem_last'.passed_fd = -1

C27_Exhausted(h) ==
    h.op = "alloc" /\ (h.create_failed \/ h.get_fd \in {"EMFILE", "EIO"} \/ h.dup_failed)

C27_Step ==
    C27_Exhausted(mem_last') =>
       /\ mem_fatal' = mem_fatal
       /\ mems' = mems
       /\ mem_last'.ret \in {"VK_ERROR_OUT_OF_DEVICE_MEMORY", "VK_ERROR_TOO_MANY_OBJECTS",
                             "VK_ERROR_OUT_OF_HOST_MEMORY",
                             "VK_ERROR_INVALID_EXTERNAL_HANDLE"}
       /\ mem_last'.get_fd = "EMFILE" => mem_last'.ret = "VK_ERROR_TOO_MANY_OBJECTS"
       /\ mem_last'.get_fd = "EIO" => mem_last'.ret = "VK_ERROR_OUT_OF_HOST_MEMORY"

\* C27: when gbm cannot create the buffer, cannot export its fd, or the
\* resource's fd cannot be duplicated, vkAllocateMemory answers with an error
\* code and leaves the fatal flag as it was; an fd export that fails with
\* EMFILE is answered too-many-objects, any other out-of-host-memory.
C27_ExhaustionNotFatal == [][C27_Step]_vars

\* the fd export of a gbm buffer failed with EMFILE on a context that is not
\* fatal
C27_Witness ==
    /\ mem_last.op = "alloc"
    /\ mem_last.get_fd = "EMFILE"
    /\ mem_last.ret = "VK_ERROR_TOO_MANY_OBJECTS"
    /\ ~mem_fatal

\* C31: vkFreeMemory unmaps a memory only if export_blob mapped it (the
\* host-mapped fallback); a memory exported as dma_buf or opaque fd, or never
\* exported, is freed without an unmap.
C31_UnmapOnlyIfMapped ==
    (mem_last.op = "free" /\ mem_last.known /\ mem_last.ret = "unmapped")
        => mem_last.pre_mem.mapped

\* C15: on the gbm path the width asked of gbm_bo_create is the allocation
\* size rounded up to a multiple of 4096, not wrapped in 32 bits (so it is at
\* least the size), in particular for 2^32 - 1 bytes; an allocation of 2^32
\* bytes or more fails with out-of-device-memory and no buffer object.
C15_GbmSizeLimit ==
    (mem_last.op = "alloc" /\ mem_last.gbm_path) =>
       /\ mem_last.size[1] = 0 =>
             /\ mem_last.gbm_called
             /\ ~U32Less(mem_last.gbm_width, U32OfU64(mem_last.size))
       /\ mem_last.size[1] > 0 =>
             /\ ~mem_last.gbm_called
             /\ ~mem_last.gbm_bo
             /\ mem_last.ret = "VK_ERROR_OUT_OF_DEVICE_MEMORY"

\* C10: an allocation that imports a resource leaves the resource's record and
\* its descriptor as they were, and what the driver receives is a different
\* descriptor for the same open file description
C10_ImportDupsResourceFd ==
    (mem_last.op = "alloc" /\ mem_last.res_known)
        => /\ mem_last.res_id \in DOMAIN vkr_resources
           /\ vkr_resources[mem_last.res_id] = mem_last.pre_res
           /\ mem_last.pre_res.fd \in Fds
                => fd_table[mem_last.pre_res.fd] = mem_last.pre_desc
           /\ mem_last.driver_called
                => /\ mem_last.passed_fd \in Fds
                   /\ mem_last.passed_fd # mem_last.pre_res.fd
                   /\ mem_last.passed_desc = mem_last.pre_desc
                   /\ mem_last.pre_desc # Closed

\* a memory was allocated from a resource with an open descriptor
C10_Witness ==
    /\ mem_last.op = "alloc"
    /\ mem_last.res_known
    /\ mem_last.driver_called
    /\ mem_last.ret = "VK_SUCCESS"
    /\ mem_last.passed_fd \in Fds
    /\ mem_last.id \in DOMAIN mems

(***************************************************************************)
(* vkr_context.h: waiting for a ring head (specification SpecRingWait).     *)
(* The dispatch thread stores (ring id, target) in ctx->wait_ring and       *)
(* blocks on wait_ring.cond; the transport reports head advances.           *)
(***************************************************************************)
RingIds == {1, 2}

\* targets of a wait: 5 and 2^32 - 1
WaitTargets == {<<0, 5>>, <<Half - 1, Half - 1>>}

\* head seqnos the transport may report: 4, 5, 6, 2^31 + 4, 2^31 + 5, 2^32 - 1
HeadInputs == {<<0, 4>>, <<0, 5>>, <<0, 6>>, <<Half \div 2, 4>>, <<Half \div 2, 5>>,
               <<Half - 1, Half - 1>>}

\* the head has reached the target: (uint32)(head - target) < 2^31
SeqnoPassed(head, target) == U32Less(U32Sub(head, target), U32Pow31)

NoWait == [id |-> 0, seqno |-> U32Zero]

NoWaitHist == [blocked |-> FALSE, matched |-> FALSE, ret |-> FALSE]

RingInit ==
    /\ wait_ring = NoWait
    /\ wait_pc = "idle"
    /\ ring_head = [r \in RingIds |-> U32Zero]
    /\ wait_hist = NoWaitHist

\* whether a head update signals wait_ring.cond
vkr_context_on_ring_seqno_update_never(w, ring_id, ring_seqno) == FALSE
vkr_context_on_ring_seqno_update(w, ring_id, ring_seqno) ==
    w.id = ring_id /\ SeqnoPassed(ring_seqno, w.seqno)

\* vkr_context_wait_ring_seqno, entry: the target is stored, and the thread
\* blocks unless the head has already reached it
WaitRingSeqno(ring, ring_seqno) ==
    /\ wait_pc = "idle"
    /\ wait_ring' = [id |-> ring, seqno |-> ring_seqno]
    /\ IF SeqnoPassed(ring_head[ring], ring_seqno)
       THEN /\ wait_pc' = "done"
            /\ wait_hist' = [NoWaitHist EXCEPT !.ret = TRUE]
       ELSE /\ wait_pc' = "waiting"
            /\ wait_hist' = [NoWaitHist EXCEPT !.blocked = TRUE]
    /\ UNCHANGED ring_head

\* vkr_context_on_ring_seqno_update: the transport saw the guest advance the
\* head of ring_id.  A head only advances, and it never runs 2^31 or more
\* ahead of a target being waited on (the ring is far smaller than that).
OnRingSeqnoUpdate(ring_id, ring_seqno) ==
    /\ SeqnoPassed(ring_seqno, ring_head[ring_id])
    /\ (wait_ring.id = ring_id /\ SeqnoPassed(ring_head[ring_id], wait_ring.seqno))
          => SeqnoPassed(ring_seqno, wait_ring.seqno)
    /\ ring_head' = [ring_head EXCEPT ![ring_id] = ring_seqno]
    /\ LET signal == vkr_context_on_ring_seqno_update(wait_ring, ring_id, ring_seqno)
       IN  /\ wait_pc' = IF signal /\ wait_pc = "waiting" THEN "woken" ELSE wait_pc
           /\ wait_hist' = IF wait_pc \in {"waiting", "woken"}
                              /\ wait_ring.id = ring_id
                              /\ SeqnoPassed(ring_seqno, wait_ring.seqno)
                           THEN [wait_hist EXCEPT !.matched = TRUE]
                           ELSE wait_hist
    /\ UNCHANGED wait_ring

\* cnd_wait returns without a signal
SpuriousWakeup ==
    /\ wait_pc = "waiting"
    /\ wait_pc' = "woken"
    /\ UNCHANGED <<wait_ring, ring_head, wait_hist>>

\* the woken thread rechecks the head and returns true or blocks again
WaitRecheck ==
    /\ wait_pc = "woken"
    /\ IF SeqnoPassed(ring_head[wait_ring.id], wait_ring.seqno)
       THEN /\ wait_pc' = "done"
            /\ wait_hist' = [wait_hist EXCEPT !.ret = TRUE]
       ELSE /\ wait_pc' = "waiting"
            /\ UNCHANGED wait_hist
    /\ UNCHANGED <<wait_ring, ring_head>>

\* the caller goes on; wait_ring is cleared
WaitReturn ==
    /\ wait_pc = "done"
    /\ wait_pc' = "idle"
    /\ wait_ring' = NoWait
    /\ wait_hist' = NoWaitHist
    /\ UNCHANGED ring_head

\* C13: a thread blocked in wait_ring_seqno(R, T) returns true once the
\* transport has reported a head H of ring R with (uint32)(H - T) < 2^31, and
\* a blocked thread does not return on updates of another ring or on heads
\* before T.
C13_WaitReturnsOnHeadUpdate ==
    /\ []((wait_pc = "done" /\ wait_hist.blocked) => (wait_hist.matched /\ wait_hist.ret))
    /\ ((wait_pc \in {"waiting", "woken"} /\ wait_hist.matched)
           ~> (wait_pc = "done" /\ wait_hist.ret))

\* a blocked wait for 2^32 - 1 returned after the head wrapped past it
C13_Witness ==
    /\ wait_pc = "done"
    /\ wait_hist.blocked
    /\ wait_hist.matched
    /\ wait_ring.seqno = <<Half - 1, Half - 1>>
    /\ ring_head[wait_ring.id] # wait_ring.seqno

RingQuiet ==
    /\ wait_ring = <<>>
    /\ wait_pc = "quiet"
    /\ ring_head = <<>>
    /\ wait_hist = <<>>

(***************************************************************************)
(* venus_context.c: submit_fence on the dispatch thread against the         *)
(* driver's retirement thread (specification SpecAsync).  The timeline and  *)
(* free-list mutexes of the source are commented out, so nothing orders the *)
(* two threads; what a thread does to the lists between two driver calls is *)
(* one step here.                                                           *)
(***************************************************************************)
NoFrame == [slot |-> NULL, ring_idx |-> 0, fence_id |-> <<0, 0, 0>>,
            seqno |-> U32Zero, old_busy_mask |-> {}]

AsyncInit ==
    /\ submit_pc = "idle"
    /\ submit_frame = NoFrame
    /\ rollback_of_freed = FALSE

InList(list, item) == \E i \in 1 .. Len(list) : list[i] = item

\* venus_context_submit_fence up to the call of vkr_renderer_submit_fence
SubmitFenceEnter(flags, ring_idx, fence_id, malloc_ok) ==
    /\ running
    /\ submit_pc = "idle"
    /\ Len(subs) < MaxSubmits
    /\ LET slot == venus_context_alloc_fence(free_fences, fence_pool, malloc_ok)
       IN  IF ring_idx >= VENUS_CONTEXT_TIMELINE_COUNT
           THEN /\ submit_ret' = -EINVAL
                /\ UNCHANGED <<timelines, fence_pool, free_fences, timeline_busy_mask,
                               submit_pc, submit_frame>>
           ELSE IF slot = NULL
           THEN /\ submit_ret' = -ENOMEM
                /\ UNCHANGED <<timelines, fence_pool, free_fences, timeline_busy_mask,
                               submit_pc, submit_frame>>
           ELSE LET timeline == timelines[ring_idx]
                    fence == [flags |-> flags, seqno |-> timeline.next_seqno,
                              fence_id |-> fence_id, sub |-> Len(subs) + 1]
                IN  /\ fence_pool' = IF slot > Len(fence_pool)
                                     THEN Append(fence_pool, fence)
                                     ELSE [fence_pool EXCEPT ![slot] = fence]
                    /\ free_fences' = IF free_fences # <<>> THEN Tail(free_fences)
                                      ELSE free_fences
                    /\ timelines' = [timelines EXCEPT ![ring_idx] =
                           [@ EXCEPT !.next_seqno = U32Inc(@),
                                     !.fences = list_addtail(@, slot)]]
                    /\ timeline_busy_mask' = timeline_busy_mask \cup {ring_idx}
                    /\ submit_pc' = "hook"
                    /\ submit_frame' = [slot |-> slot, ring_idx |-> ring_idx,
                                        fence_id |-> fence_id, seqno |-> fence.seqno,
                                        old_busy_mask |-> timeline_busy_mask]
                    /\ UNCHANGED submit_ret
    /\ UNCHANGED <<contexts, aborted, subs, retired, reported, rollback_of_freed>>

\* vkr_renderer_submit_fence returns, and venus_context_submit_fence with it.
\* list_del unlinks the fence from the list that holds it at that moment.
SubmitFenceReturn(hook_ok) ==
    /\ submit_pc = "hook"
    /\ LET slot == submit_frame.slot
           ring_idx == submit_frame.ring_idx
           call == [ring_idx |-> ring_idx, fence_id |-> submit_frame.fence_id,
                    seqno |-> submit_frame.seqno]
       IN  IF hook_ok
           THEN /\ submit_ret' = 0
                /\ subs' = Append(subs, call @@ [ret |-> 0])
                /\ UNCHANGED <<timelines, free_fences, timeline_busy_mask,
                               rollback_of_freed>>
           ELSE /\ timelines' = [timelines EXCEPT ![ring_idx] =
                       [@ EXCEPT !.fences = list_del(@, slot)]]
                /\ timeline_busy_mask' =
                       RestoreBusyMask(submit_frame.old_busy_mask, timeline_busy_mask)
                /\ free_fences' =
                       venus_context_free_fence(list_del(free_fences, slot), slot)
                /\ rollback_of_freed' =
                       (rollback_of_freed \/ InList(free_fences, slot))
                /\ submit_ret' = -1
                /\ subs' = Append(subs, call @@ [ret |-> -1])
    /\ submit_pc' = "idle"
    /\ submit_frame' = NoFrame
    /\ UNCHANGED <<contexts, aborted, fence_pool, retired, reported>>

\* the places a fence is linked at: positions in the timelines' lists and in
\* the free list
FenceLinks(slot) ==
    {p \in UNION {{<<r, i>> : i \in 1 .. Len(timelines[r].fences)} : r \in Rings} :
        timelines[p[1]].fences[p[2]] = slot}
    \cup {<<"free", i>> : i \in {j \in 1 .. Len(free_fences) : free_fences[j] = slot}}

\* C30: whatever the interleaving of submit_fence with on_retire, every
\* allocated fence is linked exactly once, in a timeline's list or in the free
\* list, no fence is unlinked after on_retire freed it, and a fence retired
\* while its submit_fence is inside the driver hook is not rolled back: its
\* submit_fence does not fail.
C30_FenceOwnedOnce ==
    /\ \A slot \in 1 .. Len(fence_pool) : Cardinality(FenceLinks(slot)) = 1
    /\ ~rollback_of_freed
    /\ \A i \in 1 .. Len(retired) :
          retired[i].sub \in 1 .. Len(subs) => subs[retired[i].sub].ret = 0

AsyncQuiet ==
    /\ submit_pc = "quiet"
    /\ submit_frame = <<>>
    /\ rollback_of_freed = FALSE

(***************************************************************************)
(* Placeholders of the other layers                                        *)
(***************************************************************************)
FenceQuiet ==
    /\ contexts = <<>>
    /\ aborted = FALSE
    /\ timelines = <<>>
    /\ fence_pool = <<>>
    /\ free_fences = <<>>
    /\ timeline_busy_mask = {}
    /\ submit_ret = 0
    /\ subs = <<>>
    /\ retired = <<>>
    /\ reported = {}

ResQuiet == ResInit

ObjQuiet ==
    /\ object_table = <<>>
    /\ cs_fatal_error = FALSE
    /\ track_lists = <<>>
    /\ destructor_calls = <<>>
    /\ instance_id = <<>>
    /\ vkr_destroyed = FALSE
    /\ after_fatal = FALSE
    /\ cmd_last = <<>>
    /\ validate_last = <<>>
    /\ destructor_mutex = <<>>

MemQuiet ==
    /\ caps = <<>>
    /\ vkr_resources = <<>>
    /\ fd_table = <<>>
    /\ mems = <<>>
    /\ mem_fatal = FALSE
    /\ out_blob = <<>>
    /\ mem_last = <<>>

(***************************************************************************)
(* Spec: the fence / timeline layer of one venus context                   *)
(***************************************************************************)
Init == FenceInit /\ ResQuiet /\ ObjQuiet /\ MemQuiet /\ RingQuiet /\ AsyncQuiet

Next ==
    \/ \E ring_idx \in RingInputs, fence_id \in FenceIdInputs,
          malloc_ok \in BOOLEAN, hook_ok \in BOOLEAN :
          /\ SubmitFence(0, ring_idx, fence_id, malloc_ok, hook_ok)
          /\ UNCHANGED <<resVars, objVars, memVars, ringVars, asyncVars>>
    \/ \E ctx_id \in CtxIds, s \in 1 .. MaxSubmits :
          /\ OnRetire(ctx_id, s)
          /\ UNCHANGED <<resVars, objVars, memVars, ringVars, asyncVars>>
    \/ RetireFences /\ UNCHANGED <<resVars, objVars, memVars, ringVars, asyncVars>>
    \/ ContextDestroy /\ UNCHANGED <<resVars, objVars, memVars, ringVars, asyncVars>>

Spec == Init /\ [][Next]_vars

(***************************************************************************)
(* SpecResources: the resource tracking table of one venus context         *)
(***************************************************************************)
InitResources == FenceQuiet /\ ResInit /\ ObjQuiet /\ MemQuiet /\ RingQuiet /\ AsyncQuiet

NextResources ==
    \/ \E res_id \in ResIdInputs, fd_type \in AttachFdTypes, import_ok \in BOOLEAN :
          /\ AttachResource(res_id, fd_type, import_ok)
          /\ UNCHANGED <<fenceVars, objVars, memVars, ringVars, asyncVars>>
    \/ \E res_id \in ResIdInputs :
          /\ DetachResource(res_id)
          /\ UNCHANGED <<fenceVars, objVars, memVars, ringVars, asyncVars>>
    \/ \E res_id \in ResIdInputs, create_ok \in BOOLEAN :
          /\ GetBlob(res_id, create_ok)
          /\ UNCHANGED <<fenceVars, objVars, memVars, ringVars, asyncVars>>

SpecResources == InitResources /\ [][NextResources]_vars

(***************************************************************************)
(* SpecObjects: the object registry of one vkr context                     *)
(***************************************************************************)
InitObjects == FenceQuiet /\ ResQuiet /\ ObjInit /\ MemQuiet /\ RingQuiet /\ AsyncQuiet

NextObjects ==
    \/ \E id \in ObjIdInputs, parent \in Parents, driver_ok \in BOOLEAN :
          /\ CreateObject(id, parent, driver_ok)
          /\ UNCHANGED <<fenceVars, resVars, memVars, ringVars, asyncVars>>
    \/ \E id \in ObjIds :
          /\ RemoveObject(id)
          /\ UNCHANGED <<fenceVars, resVars, memVars, ringVars, asyncVars>>
    \/ \E parent \in Parents :
          /\ RemoveObjects(parent)
          /\ UNCHANGED <<fenceVars, resVars, memVars, ringVars, asyncVars>>
    \/ VkrContextDestroy /\ UNCHANGED <<fenceVars, resVars, memVars, ringVars, asyncVars>>

SpecObjects == InitObjects /\ [][NextObjects]_vars

(***************************************************************************)
(* SpecMemory: resources, device memories and blob export of one vkr        *)
(* context                                                                  *)
(***************************************************************************)
InitMemory == FenceQuiet /\ ResQuiet /\ ObjQuiet /\ MemInit /\ RingQuiet /\ AsyncQuiet

NextMemory ==
    \/ /\ \E res_id \in VkrResIds, kind \in ResourceKinds : ImportResource(res_id, kind)
       /\ UNCHANGED <<fenceVars, resVars, objVars, ringVars, asyncVars>>
    \/ /\ \E res_id \in VkrResIds : DestroyResource(res_id)
       /\ UNCHANGED <<fenceVars, resVars, objVars, ringVars, asyncVars>>
    \/ /\ \E a \in AllocCalls : AllocateMemory(a)
       /\ UNCHANGED <<fenceVars, resVars, objVars, ringVars, asyncVars>>
    \/ /\ \E res_id \in VkrResIdInputs, driver_ok \in BOOLEAN :
             GetMemoryResourceProperties(res_id, driver_ok)
       /\ UNCHANGED <<fenceVars, resVars, objVars, ringVars, asyncVars>>
    \/ /\ \E id \in MemIdInputs : FreeMemory(id)
       /\ UNCHANGED <<fenceVars, resVars, objVars, ringVars, asyncVars>>
    \/ /\ \E id \in MemIdInputs, blob_flags \in BlobFlagInputs, map_ok \in BOOLEAN :
             ExportBlob(id, blob_flags, map_ok)
       /\ UNCHANGED <<fenceVars, resVars, objVars, ringVars, asyncVars>>

SpecMemory == InitMemory /\ [][NextMemory]_vars

(***************************************************************************)
(* SpecDispatch: command submission on one context                          *)
(***************************************************************************)
InitDispatch == FenceQuiet /\ ResQuiet /\ ObjInit /\ MemQuiet /\ RingQuiet /\ AsyncQuiet

NextDispatch ==
    \/ \E frames \in CmdBuffers, zero_size \in BOOLEAN :
          /\ SubmitCmd(frames, IF zero_size THEN 0 ELSE Len(frames))
          /\ UNCHANGED <<fenceVars, resVars, memVars, ringVars, asyncVars>>
    \/ VkrContextDestroy /\ UNCHANGED <<fenceVars, resVars, memVars, ringVars, asyncVars>>

SpecDispatch == InitDispatch /\ [][NextDispatch]_vars

(***************************************************************************)
(* SpecRingWait: one dispatch thread waiting on ring heads.  The woken      *)
(* thread is scheduled (weak fairness of the recheck).                      *)
(***************************************************************************)
InitRingWait == FenceQuiet /\ ResQuiet /\ ObjQuiet /\ MemQuiet /\ RingInit /\ AsyncQuiet

NextRingWait ==
    \/ \E ring \in RingIds, ring_seqno \in WaitTargets :
          /\ WaitRingSeqno(ring, ring_seqno)
          /\ UNCHANGED <<fenceVars, resVars, objVars, memVars, asyncVars>>
    \/ \E ring_id \in RingIds, ring_seqno \in HeadInputs :
          /\ OnRingSeqnoUpdate(ring_id, ring_seqno)
          /\ UNCHANGED <<fenceVars, resVars, objVars, memVars, asyncVars>>
    \/ SpuriousWakeup /\ UNCHANGED <<fenceVars, resVars, objVars, memVars, asyncVars>>
    \/ WaitRecheck /\ UNCHANGED <<fenceVars, resVars, objVars, memVars, asyncVars>>
    \/ WaitReturn /\ UNCHANGED <<fenceVars, resVars, objVars, memVars, asyncVars>>

SpecRingWait == InitRingWait /\ [][NextRingWait]_vars /\ WF_ringVars(WaitRecheck)

(***************************************************************************)
(* SpecWrap: the fence layer of a context whose ring 0 is about to wrap,    *)
(* driven by a guest whose fence ids follow the timeline's numbering        *)
(***************************************************************************)
InitWrap ==
    /\ FenceInit
    /\ timelines[0].next_seqno = <<Half - 1, Half - 1>>
    /\ ResQuiet /\ ObjQuiet /\ MemQuiet /\ RingQuiet /\ AsyncQuiet

NextWrap ==
    \/ \E ring_idx \in RingInputs, malloc_ok \in BOOLEAN, hook_ok \in BOOLEAN :
          /\ SubmitFence(0, ring_idx, WrappedFenceId(ring_idx), malloc_ok, hook_ok)
          /\ UNCHANGED <<resVars, objVars, memVars, ringVars, asyncVars>>
    \/ \E ctx_id \in CtxIds, s \in 1 .. MaxSubmits :
          /\ OnRetire(ctx_id, s)
          /\ UNCHANGED <<resVars, objVars, memVars, ringVars, asyncVars>>
    \/ RetireFences /\ UNCHANGED <<resVars, objVars, memVars, ringVars, asyncVars>>

SpecWrap == InitWrap /\ [][NextWrap]_vars

(***************************************************************************)
(* SpecAsync: submit_fence split at its driver call, with the driver's      *)
(* on_retire running in between.                                           *)
(***************************************************************************)
InitAsync == FenceInit /\ ResQuiet /\ ObjQuiet /\ MemQuiet /\ RingQuiet /\ AsyncInit

NextAsync ==
    \/ \E ring_idx \in RingInputs, fence_id \in FenceIdInputs, malloc_ok \in BOOLEAN :
          /\ SubmitFenceEnter(0, ring_idx, fence_id, malloc_ok)
          /\ UNCHANGED <<resVars, objVars, memVars, ringVars>>
    \/ \E hook_ok \in BOOLEAN :
          /\ SubmitFenceReturn(hook_ok)
          /\ UNCHANGED <<resVars, objVars, memVars, ringVars>>
    \/ \E ctx_id \in CtxIds, s \in 1 .. MaxSubmits :
          /\ OnRetire(ctx_id, s)
          /\ UNCHANGED <<resVars, objVars, memVars, ringVars, asyncVars>>

SpecAsync == InitAsync /\ [][NextAsync]_vars

====
